---- MODULE Spec2Model ----
(***************************************************************************)
(* Model of the NFL stat aggregation pipeline: the play record cleaner     *)
(* (clean_pbp.py), the event flag enricher (playstats.py), the stat        *)
(* aggregator (process_stats.py) and the entry point calculate_stats       *)
(* (calculate_stats.py).                                                   *)
(*                                                                         *)
(* A pandas cell is a record [k, n, s]: k is "null" (NaN/None), "num" (a   *)
(* number, in n) or "str" (a string, in s).  A DataFrame of plays is a     *)
(* record [columns, rows]: rows is a sequence of functions from the        *)
(* columns to cells.  The play-stat event table has fixed columns and is a *)
(* sequence of records.                                                    *)
(***************************************************************************)
EXTENDS Integers, Sequences, FiniteSets, TLC

VARIABLES
    seasons,          \* calculate_stats / process_playstats argument (list of years)
    summary_level,    \* calculate_stats argument
    stat_type,        \* calculate_stats argument
    season_type,      \* calculate_stats argument
    store_pbp,        \* the raw play table load_pbp returns for seasons
    store_playstats,  \* the raw event rows of the per-season playstats files
    pc,               \* position in the running function
    grp_vctr,         \* calculate_stats local
    pbp,              \* calculate_stats local / process_playstats argument
    playstats,        \* enriched events (process_playstats result)
    stats,            \* aggregated rows (process_stats result)
    result,           \* value returned by calculate_stats
    raised,           \* exception that ended the call, "none" if none
    stdout,           \* messages printed
    calls,            \* data steps invoked so far, in order
    extractor_stats,  \* the five *_stats_from_pbp tables passed to process_stats
    cache,            \* a call of _cache_playstats / _cache_pbp and its file
    db                \* the database seed_database writes to

vars == <<seasons, summary_level, stat_type, season_type, store_pbp,
          store_playstats, pc, grp_vctr, pbp, playstats, stats, result,
          raised, stdout, calls, extractor_stats, cache, db>>

\* the value of cache and of db while no cache call, no seeding is modelled
NoCache == [fn |-> "none"]

NoDatabase == [step |-> "none"]

-----------------------------------------------------------------------------
(* Bounds of the model.                                                    *)

MaxPlays == 2

MaxEvents == 2

-----------------------------------------------------------------------------
(* Cells, sequences and frames.                                            *)

Null == [k |-> "null", n |-> 0, s |-> ""]

Num(x) == [k |-> "num", n |-> x, s |-> ""]

Str(x) == [k |-> "str", n |-> 0, s |-> x]

\* a float cell that is no whole number: x / 2 for an odd x (2.5 is Half(5))
Half(x) == [k |-> "half", n |-> x, s |-> ""]

\* twice the number of a numeric cell, so that x <= 2 is Twice(x) <= 4
Twice(c) == IF c.k = "half" THEN c.n ELSE 2 * c.n

isna(c) == c.k = "null"

fillna(c, v) == IF isna(c) THEN v ELSE c

Range(s) == {s[i] : i \in 1..Len(s)}

SeqMap(F(_), s) == [i \in 1..Len(s) |-> F(s[i])]

RECURSIVE PickIdx(_, _, _)
PickIdx(s, keep, i) ==
    IF i > Len(s) THEN <<>>
    ELSE (IF i \in keep THEN <<s[i]>> ELSE <<>>) \o PickIdx(s, keep, i + 1)

\* rows of s whose index is in keep, in their order
Take(s, keep) == PickIdx(s, keep, 1)

\* DataFrame.drop_duplicates(subset=...) on a sequence: keep = "first"
DropDuplicatesBy(Key(_), s) ==
    Take(s, {i \in 1..Len(s) : \A j \in 1..(i - 1) : Key(s[j]) # Key(s[i])})

Frame(cols, rows) == [columns |-> cols, rows |-> rows]

\* pd.DataFrame()
EmptyDataFrame == Frame({}, <<>>)

\* df[mask]
FilterRows(df, Keep(_)) == Frame(df.columns, SelectSeq(df.rows, Keep))

SeqsUpTo(S, n) == UNION {[1..m -> S] : m \in 0..n}

-----------------------------------------------------------------------------
(* clean_pbp.py                                                            *)

essential_columns ==
    {"play_id", "game_id", "season", "week", "season_type",
     "home_team", "away_team", "posteam", "defteam",
     "game_date", "qtr", "game_seconds_remaining", "half_seconds_remaining",
     "time_of_day", "down", "ydstogo", "yardline_100", "goal_to_go",
     "score_differential", "posteam_score", "defteam_score",
     "total_home_score", "total_away_score",
     "play_type", "shotgun", "no_huddle", "qb_dropback", "qb_scramble",
     "qb_kneel", "qb_spike", "pass_length", "pass_location", "run_location",
     "run_gap", "epa", "qb_epa", "wp", "wpa", "air_yards",
     "yards_after_catch", "cpoe", "success", "xpass",
     "first_down_rush", "first_down_pass", "first_down", "rush_attempt",
     "pass_attempt", "complete_pass", "incomplete_pass", "sack", "touchdown",
     "interception", "fumble", "fumble_lost", "pass_touchdown",
     "rush_touchdown",
     "passer_player_id", "passer_player_name", "passing_yards",
     "rusher_player_id", "rusher_player_name", "rushing_yards",
     "receiver_player_id", "receiver_player_name", "receiving_yards",
     "stadium", "roof", "surface", "temp", "wind", "div_game",
     "special", "special_teams_play"}

filter_pbp_columns(df) ==
    LET existing_columns == df.columns \cap essential_columns
    IN  Frame(existing_columns,
              SeqMap(LAMBDA r : [c \in existing_columns |-> r[c]], df.rows))

team_abbr_map ==
    [x \in {"STL", "SD", "OAK", "JAC", "SL", "ARZ", "BLT", "CLV", "HST"} |->
        CASE x = "STL" -> "LA"
          [] x = "SD"  -> "LAC"
          [] x = "OAK" -> "LV"
          [] x = "JAC" -> "JAX"
          [] x = "SL"  -> "LA"
          [] x = "ARZ" -> "ARI"
          [] x = "BLT" -> "BAL"
          [] x = "CLV" -> "CLE"
          [] x = "HST" -> "HOU"]

team_columns == {"home_team", "away_team", "posteam", "defteam"}

\* team_abbr_map.get(x, x)
MapTeam(c) ==
    IF c.k = "str" /\ c.s \in DOMAIN team_abbr_map
    THEN Str(team_abbr_map[c.s]) ELSE c

normalize_team_abbreviations(df) ==
    Frame(df.columns,
          SeqMap(LAMBDA r : [c \in df.columns |->
                    IF c \in team_columns THEN MapTeam(r[c]) ELSE r[c]],
                 df.rows))

flag_columns ==
    {"touchdown", "interception", "sack", "fumble", "complete_pass",
     "incomplete_pass", "first_down", "first_down_rush", "first_down_pass",
     "rush_attempt", "pass_attempt", "qb_dropback", "qb_scramble", "qb_kneel",
     "qb_spike", "shotgun", "no_huddle", "fumble_lost", "pass_touchdown",
     "rush_touchdown", "success", "xpass", "special", "special_teams_play"}

\* the columns c with c.endswith("_id") or c.endswith("_player_id") that can
\* be present after filter_pbp_columns
id_columns ==
    {"play_id", "game_id", "passer_player_id", "rusher_player_id",
     "receiver_player_id"}

handle_missing_values(df) ==
    Frame(df.columns,
          SeqMap(LAMBDA r : [c \in df.columns |->
                    IF c \in flag_columns THEN fillna(r[c], Num(0))
                    ELSE IF c = "score_differential" THEN fillna(r[c], Num(0))
                    ELSE IF c = "yardline_100" THEN fillna(r[c], Num(50))
                    ELSE IF c \in id_columns THEN fillna(r[c], Str(""))
                    ELSE r[c]],
                 df.rows))

\* (x).astype(int) of a comparison
BoolInt(b) == Num(IF b THEN 1 ELSE 0)

\* the column each derived field is computed from
derived_source ==
    [d \in {"is_trailing", "is_leading", "is_red_zone", "is_early_down",
            "is_late_down", "is_likely_pass", "is_dropback", "is_success"} |->
        CASE d \in {"is_trailing", "is_leading"}     -> "score_differential"
          [] d = "is_red_zone"                       -> "yardline_100"
          [] d \in {"is_early_down", "is_late_down"} -> "down"
          [] d = "is_likely_pass"                    -> "xpass"
          [] d = "is_dropback"                       -> "qb_dropback"
          [] d = "is_success"                        -> "success"]

\* the text of the numbers that occur as strings in the model's tables
NumericText ==
    [t \in {"0", "1", "2", "3", "4", "5"} |->
        CASE t = "0" -> 0 [] t = "1" -> 1 [] t = "2" -> 2
          [] t = "3" -> 3 [] t = "4" -> 4 [] t = "5" -> 5]

\* Series.astype(int) on a cell that is not null, where it does not raise: a
\* string of digits becomes its number (Python's int()), a float loses its
\* fraction (truncation toward zero)
astype_int(c) ==
    IF c.k = "str" /\ c.s \in DOMAIN NumericText THEN Num(NumericText[c.s])
    ELSE IF c.k = "half"
         THEN Num(IF c.n >= 0 THEN c.n \div 2 ELSE 0 - ((0 - c.n) \div 2))
    ELSE c

\* lines 229-255: the comparisons on the value of the source column as it is
\* before convert_data_types, each with twice its constant
DerivedValue(d, src) ==
    CASE d = "is_trailing"    -> BoolInt(Twice(fillna(src, Num(0))) < 0)
      [] d = "is_leading"     -> BoolInt(Twice(fillna(src, Num(0))) > 0)
      [] d = "is_red_zone"    -> BoolInt(Twice(fillna(src, Num(100))) <= 40)
      [] d = "is_early_down"  -> BoolInt(Twice(fillna(src, Num(0))) <= 4)
      [] d = "is_late_down"   -> BoolInt(Twice(fillna(src, Num(0))) >= 6)
      [] d = "is_likely_pass" -> BoolInt(Twice(fillna(src, Num(0))) >= 1)
      [] d = "is_dropback"    -> astype_int(fillna(src, Num(0)))
      [] d = "is_success"     -> astype_int(fillna(src, Num(0)))

add_derived_fields(df) ==
    LET added == {d \in DOMAIN derived_source : derived_source[d] \in df.columns}
        cols  == df.columns \cup added
    IN  Frame(cols,
              SeqMap(LAMBDA r : [c \in cols |->
                        IF c \in added
                        THEN DerivedValue(c, r[derived_source[c]])
                        ELSE r[c]],
                     df.rows))

\* pd.to_numeric(x, errors="coerce")
to_numeric(c) ==
    IF c.k = "str"
    THEN (IF c.s \in DOMAIN NumericText THEN Num(NumericText[c.s]) ELSE Null)
    ELSE c

int_columns ==
    {"season", "week", "down", "qtr", "goal_to_go", "touchdown",
     "interception", "sack", "fumble", "complete_pass", "incomplete_pass",
     "first_down", "rush_attempt", "pass_attempt"}

float_columns ==
    {"epa", "qb_epa", "wp", "wpa", "cpoe", "xpass", "yardline_100",
     "score_differential"}

bool_columns ==
    {"shotgun", "no_huddle", "qb_dropback", "qb_scramble", "qb_kneel",
     "qb_spike", "success", "fumble_lost", "first_down_rush",
     "first_down_pass"}

derived_cols == DOMAIN derived_source

\* lines 321-345: to_numeric(...).fillna(0).astype(int) on the int and the
\* bool columns, to_numeric on the float columns, fillna(0).astype(int) on
\* the is_ columns
ConvertCell(c, v) ==
    LET v1 == IF c \in int_columns
              THEN astype_int(fillna(to_numeric(v), Num(0))) ELSE v
        v2 == IF c \in float_columns THEN to_numeric(v1) ELSE v1
        v3 == IF c \in bool_columns
              THEN astype_int(fillna(to_numeric(v2), Num(0))) ELSE v2
    IN  IF c \in derived_cols /\ c \notin bool_columns
        THEN astype_int(fillna(v3, Num(0))) ELSE v3

convert_data_types(df) ==
    Frame(df.columns,
          SeqMap(LAMBDA r : [c \in df.columns |-> ConvertCell(c, r[c])],
                 df.rows))

critical_fields == {"play_id", "game_id", "season"}

valid_play_types ==
    {"pass", "run", "punt", "field_goal", "kickoff", "extra_point",
     "qb_kneel", "qb_spike", "no_play"}

\* dropna(subset=critical_fields) looks the three columns up: a KeyError
\* when one is absent
ValidateRaises(df) == ~(critical_fields \subseteq df.columns)

ValidRow(cols, r) ==
    /\ \A c \in critical_fields : ~isna(r[c])
    /\ ~isna(to_numeric(r["play_id"]))
    /\ ("down" \in cols =>
            isna(r["down"]) \/ (Twice(r["down"]) >= 2 /\ Twice(r["down"]) <= 8))
    /\ ("play_type" \in cols =>
            isna(r["play_type"]) \/ r["play_type"].s \in valid_play_types)

validate_data(df) == FilterRows(df, LAMBDA r : ValidRow(df.columns, r))

\* the columns add_derived_fields compares with a number (lines 231-248)
compared_columns == {"score_differential", "yardline_100", "down", "xpass"}

\* add_derived_fields raises TypeError when a compared column holds a string:
\* (column.fillna(v) <= number) compares str with int
AddDerivedRaises(df) ==
    \E c \in compared_columns \cap df.columns :
        \E i \in 1..Len(df.rows) : df.rows[i][c].k = "str"

\* the columns add_derived_fields converts with astype(int) (lines 250-255)
astype_columns == {"qb_dropback", "success"}

\* add_derived_fields raises ValueError when a column converted with
\* astype(int) holds a string that is not a number: int() of that string
AstypeIntRaises(df) ==
    \E c \in astype_columns \cap df.columns :
        \E i \in 1..Len(df.rows) :
            df.rows[i][c].k = "str" /\ df.rows[i][c].s \notin DOMAIN NumericText

\* the exception that ends clean_pbp_data(df), "none" when it returns; the
\* steps run in the order of lines 412-419, the comparisons of
\* add_derived_fields before its conversions
clean_pbp_error(df) ==
    LET handled == handle_missing_values(
                     normalize_team_abbreviations(filter_pbp_columns(df)))
    IN  IF AddDerivedRaises(handled) THEN "TypeError"
        ELSE IF AstypeIntRaises(handled) THEN "ValueError"
        ELSE IF ValidateRaises(convert_data_types(add_derived_fields(handled)))
             THEN "KeyError"
             ELSE "none"

clean_pbp_data(df) ==
    validate_data(
      convert_data_types(
        add_derived_fields(
          handle_missing_values(
            normalize_team_abbreviations(
              filter_pbp_columns(df))))))

-----------------------------------------------------------------------------
(* The raw play table (what load_pbp returns).                             *)

RawColumns ==
    {"play_id", "game_id", "season", "week", "season_type", "posteam",
     "defteam", "down", "play_type", "special", "desc"}

\* one raw play; desc is a provider column outside the allow-list
RawPlay(play_id, game_id, season, stype, posteam, defteam, down, ptype, special) ==
    [c \in RawColumns |->
        CASE c = "play_id"     -> play_id
          [] c = "game_id"     -> game_id
          [] c = "season"      -> season
          [] c = "week"        -> Num(1)
          [] c = "season_type" -> stype
          [] c = "posteam"     -> posteam
          [] c = "defteam"     -> defteam
          [] c = "down"        -> down
          [] c = "play_type"   -> ptype
          [] c = "special"     -> special
          [] c = "desc"        -> Str("text")]

\* the season a game of the model is played in
GameSeason(g) == IF g = "2005_01_A_B" THEN 2005 ELSE 2015

Games == {"2005_01_A_B", "2015_01_A_B", "2015_01_C_D"}

-----------------------------------------------------------------------------
(* playstats.py                                                            *)
(*                                                                         *)
(* A raw event is a record [season, week, game_id, play_id, gsis_player_id,*)
(* player_name, team_abbr, stat_id, yards]; gsis_player_id and player_name *)
(* are cells (null for a team event), the others plain values.             *)

\* load_playstats(seasons): the files playstats_{s}.parquet, s in seasons, in
\* the order of the list, concatenated; a file holds the events of its season
RECURSIVE load_playstats(_, _)
load_playstats(store, ss) ==
    IF ss = <<>> THEN <<>>
    ELSE SelectSeq(store, LAMBDA e : e.season = Head(ss))
         \o load_playstats(store, Tail(ss))

\* utils_data.py lines 59-60: without a season there is no file to read and
\* load_playstats raises ValueError; process_playstats calls it at line 35
load_playstats_raises(ss) == IF ss = <<>> THEN {"ValueError"} ELSE {}

\* find_bad_seasons(season_list)[1]: the seasons of the list in 2003..2008
bad_seasons_of(season_list) ==
    SelectSeq(season_list, LAMBDA num : num \in 2003..2008)

\* find_bad_seasons(season_list)[0]
bad_data_of(season_list) == bad_seasons_of(season_list) # <<>>

\* mutant of IsTargetRollup: the era branch is missing
IsTargetRollup_NoEra(e, ss) == IF e.stat_id = 115 THEN 1 ELSE 0

\* lines 45-48: is_target as summed into team_game_targets (True counts 1)
IsTargetRollup(e, ss) ==
    IF bad_data_of(ss)
    THEN (IF e.season \in Range(bad_seasons_of(ss))
          THEN (IF e.stat_id \in {21, 22, 115} THEN 1 ELSE 0)
          ELSE (IF e.stat_id \in {115} THEN 1 ELSE 0))
    ELSE (IF e.stat_id = 115 THEN 1 ELSE 0)

\* lines 148-151: the is_target column of the result
IsTargetFinal(e, ss) ==
    IF bad_data_of(ss)
    THEN (IF e.season \in Range(bad_seasons_of(ss))
          THEN (IF e.stat_id \in {21, 22, 115} THEN 1 ELSE 0)
          ELSE (IF e.stat_id \in {115} THEN 1 ELSE 0))
    ELSE (IF e.stat_id = 115 THEN 1 ELSE 0)

\* line 127
IsComp(e) == e.stat_id \in {15, 16}

\* mutant of IsAtt: the pass touchdown code 16 is missing
IsAtt_NoPassTD(e) == e.stat_id \in {14, 15, 19}

\* line 128
IsAtt(e) == e.stat_id \in {14, 15, 16, 19}

\* mutant of PassYards: the yards of every event are counted
PassYards_AllEvents(e) == e.yards

\* line 184: np.where(is_comp, yards, 0)
PassYards(e) == IF IsComp(e) THEN e.yards ELSE 0

\* line 51: yards * stat_id.isin([111, 112])
RollupAirYards(e) == IF e.stat_id \in {111, 112} THEN e.yards ELSE 0

RECURSIVE SumSeq(_)
SumSeq(s) == IF s = <<>> THEN 0 ELSE Head(s) + SumSeq(Tail(s))

\* sum of F over the rows of s
SumOver(F(_), s) == SumSeq(SeqMap(F, s))

\* mutant of AirYardsComplete: the air yards of the rows flagged is_comp
AirYardsComplete_OnComp(e) ==
    IF IsComp(e) /\ e.stat_id \in {111, 112} THEN e.yards ELSE 0

\* line 130: yards * (stat_id == 111)
AirYardsComplete(e) == IF e.stat_id = 111 THEN e.yards ELSE 0

\* line 38
DedupKey(e) == <<e.game_id, e.play_id, e.gsis_player_id, e.stat_id>>

\* lines 34, 39: inner merge with pbp[["game_id"]].drop_duplicates()
InPbpGames(e, df) ==
    \E i \in 1..Len(df.rows) : df.rows[i]["game_id"] = Str(e.game_id)

\* lines 35-41: the events the flags are computed on
base_playstats(df, store, ss) ==
    LET loaded == load_playstats(store, ss)
        filled == SeqMap(LAMBDA e : [e EXCEPT !.gsis_player_id =
                                        fillna(e.gsis_player_id, Str("TEAM"))],
                         loaded)
        unique == DropDuplicatesBy(DedupKey, filled)
    IN  SelectSeq(unique, LAMBDA e : InPbpGames(e, df))

\* lines 56-57, 78 (player_id is gsis_player_id renamed, team is team_abbr)
player_play_key(e) == <<e.season, e.week, e.play_id, e.gsis_player_id>>

team_play_key(e) == <<e.season, e.week, e.play_id, e.team_abbr>>

team_game_key(e) == <<e.season, e.game_id, e.team_abbr>>

\* ";".join of the stat_id strings of a group, plus the trailing ";": carried
\* as the list that str.split(";") gives back, whose last element is empty
StatList(group) == SeqMap(LAMBDA e : ToString(e.stat_id), group) \o <<"">>

\* has_id(id_value, series) on one joined list, lines 105-120
has_id(id_value, row_str) == ToString(id_value) \in Range(row_str)

\* mutant of QbTarget: the team-play stat list is not consulted
QbTarget_AttOnly(e, team_stats, ss) == IsAtt(e)

\* lines 137-140: every attempt of a season in 2003..2008, otherwise an
\* attempt whose team-play stat list holds code 115
QbTarget(e, team_stats, ss) ==
    IF bad_data_of(ss)
    THEN (IF e.season \in Range(bad_seasons_of(ss))
          THEN IsAtt(e)
          ELSE IsAtt(e) /\ has_id(115, team_stats))
    ELSE IsAtt(e) /\ has_id(115, team_stats)

\* _get_playinfo(pbp), lines 198-220, looked up for one (game_id, play_id):
\* the first play with that key gives off and def; special is 1 when a play
\* with that key has special == 1; the left merge gives nulls without a match
playinfo(df, e) ==
    LET hit == {i \in 1..Len(df.rows) :
                    /\ df.rows[i]["game_id"] = Str(e.game_id)
                    /\ df.rows[i]["play_id"] = Num(e.play_id)}
    IN  IF hit = {}
        THEN [off |-> Null, def |-> Null, special |-> Null]
        ELSE LET first == CHOOSE i \in hit : \A j \in hit : i <= j
             IN  [off     |-> df.rows[first]["posteam"],
                  def     |-> df.rows[first]["defteam"],
                  special |-> IF \E i \in hit : df.rows[i]["special"] = Num(1)
                              THEN Num(1) ELSE Num(0)]

\* line 100: pbp[["game_id", "season_type"]].drop_duplicates(), the rows of
\* one game_id in order
season_types_of(df, g) ==
    LET pairs == DropDuplicatesBy(LAMBDA r : <<r["game_id"], r["season_type"]>>,
                                  df.rows)
    IN  SeqMap(LAMBDA r : r["season_type"],
               SelectSeq(pairs, LAMBDA r : r["game_id"] = Str(g)))

\* lines 43-195 for one event e of the base table ps and one season_type
\* matched by the merge of line 101
EnrichedRow(e, ps, df, ss, stype) ==
    LET more_stats  == StatList(SelectSeq(ps,
                          LAMBDA x : player_play_key(x) = player_play_key(e)))
        team_play   == SelectSeq(ps, LAMBDA x : team_play_key(x) = team_play_key(e))
        team_stats  == StatList(team_play)
        team_game   == SelectSeq(ps, LAMBDA x : team_game_key(x) = team_game_key(e))
        info        == playinfo(df, e)
        is_comp     == IsComp(e)
        is_att      == IsAtt(e)
        is_sack     == e.stat_id = 20
        is_air      == e.stat_id \in {111, 112}
        is_carry    == e.stat_id \in {10, 11}
        is_rush_yds == e.stat_id \in {10, 11, 12, 13}
        is_rec      == e.stat_id \in {21, 22}
        is_rec_yds  == e.stat_id \in {21, 22, 23, 24}
        is_yac      == e.stat_id = 113
        has_fumble  == has_id(52, more_stats) \/ has_id(53, more_stats)
                          \/ has_id(54, more_stats)
        has_fl      == has_id(106, more_stats)
        has_rush_fd == has_id(3, team_stats)
        has_pass_fd == has_id(4, team_stats)
    IN  [season               |-> e.season,
         week                 |-> e.week,
         game_id              |-> e.game_id,
         play_id              |-> e.play_id,
         player_id            |-> e.gsis_player_id.s,
         player_name          |-> e.player_name,
         team                 |-> e.team_abbr,
         stat_id              |-> e.stat_id,
         yards                |-> e.yards,
         more_stats           |-> more_stats,
         team_stats           |-> team_stats,
         team_play_air_yards  |-> SumOver(RollupAirYards, team_play),
         team_game_targets    |-> SumOver(LAMBDA x : IsTargetRollup(x, ss), team_game),
         team_game_air_yards  |-> SumOver(RollupAirYards, team_game),
         off                  |-> info.off,
         def                  |-> info.def,
         special              |-> info.special,
         season_type          |-> stype,
         is_comp              |-> is_comp,
         is_att               |-> is_att,
         is_pass_td           |-> e.stat_id = 16,
         air_yards_complete   |-> AirYardsComplete(e),
         is_int               |-> e.stat_id = 19,
         is_sack              |-> is_sack,
         is_air_yards         |-> is_air,
         qb_target            |-> QbTarget(e, team_stats, ss),
         is_carry             |-> is_carry,
         is_rush_yards        |-> is_rush_yds,
         is_rush_td           |-> e.stat_id \in {11, 13},
         is_rec               |-> is_rec,
         is_target            |-> IsTargetFinal(e, ss),
         is_rec_yards         |-> is_rec_yds,
         is_rec_td            |-> e.stat_id \in {22, 24},
         is_yac               |-> is_yac,
         is_pass_2pt          |-> e.stat_id = 77,
         is_rush_2pt          |-> e.stat_id = 75,
         is_rec_2pt           |-> e.stat_id = 104,
         has_fumble           |-> has_fumble,
         has_fumble_lost      |-> has_fl,
         has_rush_first_down  |-> has_rush_fd,
         has_pass_first_down  |-> has_pass_fd,
         is_sack_fumble       |-> is_sack /\ has_fumble,
         is_sack_fumble_lost  |-> is_sack /\ has_fl,
         is_rush_fumble       |-> is_carry /\ has_fumble,
         is_rush_fumble_lost  |-> is_carry /\ has_fl,
         is_rec_fumble        |-> is_rec /\ has_fumble,
         is_rec_fumble_lost   |-> is_rec /\ has_fl,
         is_rush_first_down   |-> is_carry /\ has_rush_fd,
         is_pass_first_down   |-> is_comp /\ has_pass_fd,
         is_rec_first_down    |-> is_rec /\ has_pass_fd,
         is_special_td        |-> info.special = Num(1) /\ e.stat_id \in {11, 13, 22, 24},
         pass_yards           |-> PassYards(e),
         sack_yards           |-> IF is_sack THEN e.yards * (-1) ELSE 0,
         air_yards            |-> IF is_air THEN e.yards ELSE 0,
         rush_yards           |-> IF is_rush_yds THEN e.yards ELSE 0,
         rec_yards            |-> IF is_rec_yds THEN e.yards ELSE 0,
         yac                  |-> IF is_yac THEN e.yards ELSE 0]

RECURSIVE Flatten(_)
Flatten(ss) == IF ss = <<>> THEN <<>> ELSE Head(ss) \o Flatten(Tail(ss))

\* process_playstats(pbp, seasons, summary_level), lines 34-195, with the
\* events load_playstats reads taken from store; summary_level is not used by
\* the body.  The left merge of line 101 gives one row per season_type that
\* pbp records for the event's game.
process_playstats(df, ss, store) ==
    LET ps == base_playstats(df, store, ss)
    IN  Flatten(SeqMap(LAMBDA e :
                    SeqMap(LAMBDA stype : EnrichedRow(e, ps, df, ss, stype),
                           season_types_of(df, e.game_id)),
                ps))

-----------------------------------------------------------------------------
(* process_stats.py                                                        *)
(*                                                                         *)
(* An aggregated row is a record: the grouping columns, the aggregates and *)
(* the derived metrics.  A quotient a / b is carried as the pair <<a, b>>  *)
(* and NaN as <<>>.                                                        *)

NaN == <<>>

Quot(a, b) == <<a, b>>

\* the strings of the model's id columns in ascending order (Python str order)
StringOrder ==
    <<"", "2005_01_A_B", "2015_01_A_B", "2015_01_C_D", "2015_02_A_C", "A", "B",
      "C", "D",
      "N1", "N2", "P1", "P2", "POST", "REG", "TEAM">>

StrRank(x) == CHOOSE i \in 1..Len(StringOrder) : StringOrder[i] = x

\* NaN in a column of strings that are carried as plain values (player_id,
\* team, game_id): no id of the data
NaNText == "nan"

\* order of the values of a grouping column: season and week are numbers; in
\* a column of strings NaN comes after every string (na_position="last")
ColLess(c, a, b) ==
    IF c \in {"season", "week"} THEN a < b
    ELSE IF a = NaNText THEN FALSE
    ELSE IF b = NaNText THEN TRUE
    ELSE StrRank(a) < StrRank(b)

\* lexicographic order of two keys of the grouping columns grp
RECURSIVE KeyLess(_, _, _)
KeyLess(grp, a, b) ==
    IF grp = <<>> THEN FALSE
    ELSE \/ ColLess(Head(grp), Head(a), Head(b))
         \/ Head(a) = Head(b) /\ KeyLess(Tail(grp), Tail(a), Tail(b))

RECURSIVE SortKeys(_, _)
SortKeys(grp, K) ==
    IF K = {} THEN <<>>
    ELSE LET m == CHOOSE k \in K : \A o \in K \ {k} : KeyLess(grp, k, o)
         IN  <<m>> \o SortKeys(grp, K \ {m})

GroupKeyOf(grp, r) == SeqMap(LAMBDA c : r[c], grp)

\* the rows of one group, in the order of the table
GroupRows(ps, grp, k) == SelectSeq(ps, LAMBDA r : GroupKeyOf(grp, r) = k)

\* groupby(grp_vars): the keys in ascending order
GroupKeys(ps, grp) == SortKeys(grp, {GroupKeyOf(grp, ps[i]) : i \in 1..Len(ps)})

\* sum of a boolean column over a group
CountFlag(g, col) == SumOver(LAMBDA r : IF r[col] THEN 1 ELSE 0, g)

\* sum of a numeric column over a group
SumCol(g, col) == SumOver(LAMBDA r : r[col], g)

Distinct(g, col) == {g[i][col] : i \in 1..Len(g)}

\* custom_mode(series), lines 46-54: the most frequent non-null value, the
\* smallest of them on a tie; None when there is none
custom_mode(g, col) ==
    LET vals  == {c \in Distinct(g, col) : ~isna(c)}
        cnt(c) == Cardinality({i \in 1..Len(g) : g[i][col] = c})
        best  == {c \in vals : \A o \in vals : cnt(o) <= cnt(c)}
    IN  IF vals = {} THEN Null
        ELSE CHOOSE c \in best : \A o \in best : StrRank(c.s) <= StrRank(o.s)

\* mutant of player_team_totals: player_games is not de-duplicated, a game
\* counts once per event of the player
player_team_totals_PerEvent(ps, season, player, team) ==
    LET mine     == SelectSeq(ps, LAMBDA r : /\ r.season = season
                                             /\ r.player_id = player
                                             /\ r.team = team)
        totals(g) == DropDuplicatesBy(
                        LAMBDA r : <<r.team_game_targets, r.team_game_air_yards>>,
                        SelectSeq(ps, LAMBDA r : /\ r.season = season
                                                 /\ r.game_id = g
                                                 /\ r.team = team))
        joined   == Flatten(SeqMap(LAMBDA r : totals(r.game_id), mine))
    IN  [team_game_targets   |-> SumCol(joined, "team_game_targets"),
         team_game_air_yards |-> SumCol(joined, "team_game_air_yards")]

\* lines 200-225 for one (season, player_id, team): the team_game_targets and
\* team_game_air_yards of the team, summed over the distinct games in which
\* the player has an event for the team
player_team_totals(ps, season, player, team) ==
    LET mine     == SelectSeq(ps, LAMBDA r : /\ r.season = season
                                             /\ r.player_id = player
                                             /\ r.team = team)
        games    == DropDuplicatesBy(LAMBDA r : r.game_id, mine)
        \* team_game_stats.drop_duplicates(): the distinct total rows of a game
        totals(g) == DropDuplicatesBy(
                        LAMBDA r : <<r.team_game_targets, r.team_game_air_yards>>,
                        SelectSeq(ps, LAMBDA r : /\ r.season = season
                                                 /\ r.game_id = g
                                                 /\ r.team = team))
        joined   == Flatten(SeqMap(LAMBDA r : totals(r.game_id), games))
    IN  [team_game_targets   |-> SumCol(joined, "team_game_targets"),
         team_game_air_yards |-> SumCol(joined, "team_game_air_yards")]

\* np.where(den != 0, num / den, np.nan)
RatioNonZero(num, den) == IF den # 0 THEN Quot(num, den) ELSE NaN

\* np.where(den > 0, num / den, np.nan)
RatioPositive(num, den) == IF den > 0 THEN Quot(num, den) ELSE NaN

\* 1.5 * (t / tt) + 0.7 * (a / ta) as one quotient
Wopr(t, tt, a, ta) == Quot(15 * t * ta + 7 * a * tt, 10 * tt * ta)

\* lines 303-307
compute_opponent(g) ==
    IF Str(g[1].team) = g[1].off THEN g[1].def ELSE g[1].off

\* line 317: replace("", np.nan) on a string cell
EmptyToNaN(c) == IF c = Str("") THEN Null ELSE c

\* line 317 on a string carried as a plain value
EmptyTextToNaN(x) == IF x = "" THEN NaNText ELSE x

\* the distinct values of a column in order of appearance (Series.unique)
UniqueSeq(g, col) == SeqMap(LAMBDA r : r[col], DropDuplicatesBy(LAMBDA r : r[col], g))

\* groupby(...).agg("first") on a cell column: the first non-null value
FirstValid(g, col) ==
    LET valid == SelectSeq(g, LAMBDA r : ~isna(r[col]))
    IN  IF valid = <<>> THEN Null ELSE valid[1][col]

\* lines 296-297 and 316-317: the season types of the group in order of
\* appearance, joined with "+"; the join of the one type "" is the empty
\* string, which line 317 replaces by NaN
JoinedSeasonTypes(g) ==
    LET types == UniqueSeq(g, "season_type")
    IN  IF types = <<Str("")>> THEN NaN ELSE types

\* lines 56-317 for the group g of key k.  reset_index (line 313) makes the
\* grouping columns columns of the result, and line 317 replaces "" in every
\* object column, the grouping columns and team included.
AggregatedRow(ps, grp, st, sl, k, g) ==
    LET keyrec  == [c \in Range(grp) |->
                        LET v == k[CHOOSE i \in 1..Len(grp) : grp[i] = c]
                        IN  IF c \in {"season", "week"} THEN v
                            ELSE EmptyTextToNaN(v)]
        targets == SumCol(g, "is_target")
        recv_ay == IF st = "player"
                   THEN SumOver(LAMBDA r : IF r.is_target # 0
                                           THEN r.team_play_air_yards ELSE 0, g)
                   ELSE SumCol(g, "air_yards")
        counts  ==
            [completions               |-> CountFlag(g, "is_comp"),
             attempts                  |-> CountFlag(g, "is_att"),
             passing_tds               |-> CountFlag(g, "is_pass_td"),
             interceptions             |-> CountFlag(g, "is_int"),
             sacks                     |-> CountFlag(g, "is_sack"),
             sack_fumbles              |-> CountFlag(g, "is_sack_fumble"),
             sack_fumbles_lost         |-> CountFlag(g, "is_sack_fumble_lost"),
             passing_first_downs       |-> CountFlag(g, "is_pass_first_down"),
             passing_2pt_conversions   |-> CountFlag(g, "is_pass_2pt"),
             qb_targets                |-> CountFlag(g, "qb_target"),
             carries                   |-> CountFlag(g, "is_carry"),
             rushing_tds               |-> CountFlag(g, "is_rush_td"),
             rushing_fumbles           |-> CountFlag(g, "is_rush_fumble"),
             rushing_fumbles_lost      |-> CountFlag(g, "is_rush_fumble_lost"),
             rushing_first_downs       |-> CountFlag(g, "is_rush_first_down"),
             rushing_2pt_conversions   |-> CountFlag(g, "is_rush_2pt"),
             receptions                |-> CountFlag(g, "is_rec"),
             targets                   |-> targets,
             receiving_tds             |-> CountFlag(g, "is_rec_td"),
             receiving_fumbles         |-> CountFlag(g, "is_rec_fumble"),
             receiving_fumbles_lost    |-> CountFlag(g, "is_rec_fumble_lost"),
             receiving_first_downs     |-> CountFlag(g, "is_rec_first_down"),
             receiving_2pt_conversions |-> CountFlag(g, "is_rec_2pt"),
             special_teams_tds         |-> CountFlag(g, "is_special_td"),
             passing_yards             |-> SumCol(g, "pass_yards"),
             sack_yards                |-> SumCol(g, "sack_yards"),
             passing_air_yards         |-> SumCol(g, "air_yards"),
             rushing_yards             |-> SumCol(g, "rush_yards"),
             receiving_yards           |-> SumCol(g, "rec_yards"),
             receiving_yards_after_catch |-> SumCol(g, "yac"),
             receiving_air_yards       |-> recv_ay,
             passing_yards_after_catch |->
                 SumCol(g, "pass_yards") - SumCol(g, "air_yards_complete"),
             qb_adot |-> RatioNonZero(SumCol(g, "air_yards"), CountFlag(g, "qb_target"))]
        team    == IF sl = "week" THEN g[Len(g)].team ELSE g[1].team
        tot     == IF sl = "season"
                   THEN player_team_totals(ps, g[1].season, g[1].player_id, team)
                   ELSE [team_game_targets   |-> g[1].team_game_targets,
                         team_game_air_yards |-> g[1].team_game_air_yards]
        tt      == tot.team_game_targets
        ta      == tot.team_game_air_yards
        player  ==
            IF st # "player" THEN <<>>
            ELSE [player_name   |-> EmptyToNaN(custom_mode(g, "player_name")),
                  team          |-> EmptyTextToNaN(team),
                  pacr          |-> RatioNonZero(SumCol(g, "pass_yards"),
                                                 SumCol(g, "air_yards")),
                  racr          |-> RatioNonZero(SumCol(g, "rec_yards"), recv_ay),
                  receiver_adot |-> RatioNonZero(recv_ay, targets),
                  target_share  |-> IF sl = "season" THEN RatioPositive(targets, tt)
                                    ELSE RatioNonZero(targets, tt),
                  air_yards_share |-> IF sl = "season" THEN RatioPositive(recv_ay, ta)
                                      ELSE RatioNonZero(recv_ay, ta),
                  wopr          |-> IF sl = "season"
                                    THEN (IF tt > 0 /\ ta > 0
                                          THEN Wopr(targets, tt, recv_ay, ta) ELSE NaN)
                                    ELSE (IF tt # 0 /\ ta # 0
                                          THEN Wopr(targets, tt, recv_ay, ta) ELSE NaN)]
        level   ==
            IF sl = "week"
            THEN [season_type   |-> EmptyToNaN(FirstValid(g, "season_type")),
                  opponent_team |-> EmptyToNaN(compute_opponent(g))]
            ELSE [games       |-> Cardinality(Distinct(g, "game_id")),
                  season_type |-> JoinedSeasonTypes(g)]
    IN  keyrec @@ player @@ level @@ counts

\* lines 56-317: one row per group, in ascending order of the key (groupby
\* sorts the keys).  The season_type of a season-level row is the "+"-joined
\* list of the season types of the group, carried as that list.
aggregate_groups(ps, grp, st, sl) ==
    SeqMap(LAMBDA k : AggregatedRow(ps, grp, st, sl, k, GroupRows(ps, grp, k)),
           GroupKeys(ps, grp))

\* lines 142-143: with stat_type "player" the column recv_air_yards is
\* assigned on the playstats argument itself, which the caller still holds
playstats_after_process_stats(ps, st) ==
    IF st = "player"
    THEN SeqMap(LAMBDA r : [recv_air_yards |->
                               IF r.is_target # 0 THEN r.team_play_air_yards ELSE 0]
                           @@ r,
                ps)
    ELSE ps

\* A table an extractor of pbp_off_stats.py returns: the statistic columns it
\* adds and its rows, records over the grouping columns and those columns.
ExtractorTable(cols, rows) == [columns |-> cols, rows |-> rows]

\* mutant of IsEmptyFrame: no table counts as empty, every one is merged
IsEmptyFrame_Never(t) == FALSE

\* DataFrame.empty, lines 321-329
IsEmptyFrame(t) == t.rows = <<>>

\* mutant of MergeLeft: an outer join, the right rows without a match are
\* appended
MergeLeft_Outer(left, right, grp) ==
    Flatten(SeqMap(LAMBDA l :
        LET hits == SelectSeq(right.rows,
                        LAMBDA r : \A c \in Range(grp) : r[c] = l[c])
        IN  IF hits = <<>>
            THEN <<l @@ [c \in right.columns |-> NaN]>>
            ELSE SeqMap(LAMBDA r : l @@ [c \in right.columns |-> r[c]], hits),
        left))
    \o SelectSeq(right.rows,
            LAMBDA r : \A i \in 1..Len(left) :
                          \E c \in Range(grp) : r[c] # left[i][c])

\* pd.merge(left, right, on=grp_vars, how="left"), line 335: a left row
\* once per matching right row, with the right table's columns; with NaN in
\* them when no right row matches
MergeLeft(left, right, grp) ==
    Flatten(SeqMap(LAMBDA l :
        LET hits == SelectSeq(right.rows,
                        LAMBDA r : \A c \in Range(grp) : r[c] = l[c])
        IN  IF hits = <<>>
            THEN <<l @@ [c \in right.columns |-> NaN]>>
            ELSE SeqMap(LAMBDA r : l @@ [c \in right.columns |-> r[c]], hits),
        left))

\* reduce(merge, dfs_to_merge), lines 333-337
RECURSIVE MergeAll(_, _, _)
MergeAll(left, tables, grp) ==
    IF tables = <<>> THEN left
    ELSE MergeAll(MergeLeft(left, Head(tables), grp), Tail(tables), grp)

\* The exceptions process_stats can end with, none when it returns.  On a
\* playstats table without rows at week level, groupby(grp_vars).apply(
\* compute_opponent) of line 309 has no group: pandas either calls
\* compute_opponent on the empty table, where iloc[0] raises IndexError, or
\* returns an empty DataFrame with the columns of playstats, and the
\* assignment of line 310 to the one column opponent_team raises ValueError.
\* Which of the two depends on the pandas release, which src/ does not fix.
\* At season level "+".join of line 297 raises TypeError on a group whose
\* season types hold a null, which is no string.
process_stats_raises(ps, sl) ==
    IF sl = "week"
    THEN (IF ps = <<>> THEN {"ValueError", "IndexError"} ELSE {})
    ELSE (IF \E i \in 1..Len(ps) : isna(ps[i].season_type)
          THEN {"TypeError"} ELSE {})

\* sort_values(by=grp_vars), line 438: the rows in ascending order of the
\* key, NaN last, rows of equal keys in the order they had
RECURSIVE sort_values(_, _)
sort_values(rows, grp) ==
    IF rows = <<>> THEN <<>>
    ELSE LET key(i) == GroupKeyOf(grp, rows[i])
             first  == CHOOSE i \in 1..Len(rows) :
                          /\ \A j \in 1..Len(rows) : ~KeyLess(grp, key(j), key(i))
                          /\ \A j \in 1..(i - 1) : KeyLess(grp, key(i), key(j))
         IN  <<rows[first]>>
             \o sort_values(SubSeq(rows, 1, first - 1)
                            \o SubSeq(rows, first + 1, Len(rows)), grp)

\* process_stats(playstats, grp_vars, stat_type, summary_level,
\* passing_stats_from_pbp, ..., scramble_stats_from_pbp): the aggregated rows
\* (lines 56-317), merged with the extractor tables that are not empty
\* (lines 320-337), sorted by the key (line 438).  The reordering of columns
\* in lines 339-435 does not change a row seen as a record.
process_stats(ps, grp, st, sl, passing, rushing, receiving, dropback, scramble) ==
    LET dfs_to_merge ==
            SelectSeq(<<passing, rushing, receiving, dropback, scramble>>,
                      LAMBDA t : ~IsEmptyFrame(t))
    IN  sort_values(MergeAll(aggregate_groups(ps, grp, st, sl), dfs_to_merge, grp),
                    grp)

-----------------------------------------------------------------------------
(* calculate_stats.py                                                      *)

SummaryLevels == {"season", "week", "game"}

StatTypes == {"player", "team", "coach"}

SeasonTypes == {"REG", "POST", "ALL", "PRE"}

SeasonLists == {<<2005>>, <<2015>>, <<2005, 2015>>}

\* mutant of ParamError: the season_type check is missing
ParamError_NoSeasonType(sl, st, sty) ==
    IF sl \notin {"season", "week"} THEN "summary_level must be 'season' or 'week'"
    ELSE IF st \notin {"player", "team"} THEN "stat_type must be 'player' or 'team'"
    ELSE "none"

\* the checks of lines 82-87, in order: the message of the first that fails
ParamError(sl, st, sty) ==
    IF sl \notin {"season", "week"} THEN "summary_level must be 'season' or 'week'"
    ELSE IF st \notin {"player", "team"} THEN "stat_type must be 'player' or 'team'"
    ELSE IF sty \notin {"REG", "POST", "ALL"}
         THEN "season_type must be 'REG', 'POST', or 'ALL'"
    ELSE "none"

\* mutant of GrpVctr: the week keys lack game_id
GrpVctr_NoGame(sl, st) ==
    CASE sl = "season" /\ st = "player" -> <<"season", "player_id">>
      [] sl = "season" /\ st = "team"   -> <<"season", "team">>
      [] sl = "week" /\ st = "player"   -> <<"season", "week", "player_id">>
      [] sl = "week" /\ st = "team"     -> <<"season", "week", "team">>

GrpVctr(sl, st) ==
    CASE sl = "season" /\ st = "player" -> <<"season", "player_id">>
      [] sl = "season" /\ st = "team"   -> <<"season", "team">>
      [] sl = "week" /\ st = "player"   -> <<"season", "week", "game_id", "player_id">>
      [] sl = "week" /\ st = "team"     -> <<"season", "week", "game_id", "team">>

\* load_pbp(seasons): the files pbp_{s}.parquet, s in seasons, concatenated;
\* store_pbp holds that concatenation
load_pbp(store) == store

\* utils_data.py lines 107-108: min(seasons) < 1999 raises ValueError, and so
\* does min() of a list without seasons
load_pbp_raises(ss) ==
    IF ss = <<>> \/ (\E i \in 1..Len(ss) : ss[i] < 1999)
    THEN {"ValueError"} ELSE {}

\* mutant of FilterApplies: the filter is applied at every summary level
FilterApplies_AnyLevel(sty, sl) == sty \in {"REG", "POST"}

\* line 100
FilterApplies(sty, sl) == sty \in {"REG", "POST"} /\ sl = "season"

\* line 101: pbp[pbp["season_type"] == season_type]
SeasonTypeFilter(df, sty) == FilterRows(df, LAMBDA r : r["season_type"] = Str(sty))

\* mutant of IsEmpty: the empty result is not detected
IsEmpty_Never(df) == FALSE

\* line 102
IsEmpty(df) == Len(df.rows) = 0

\* the f-string printed at lines 102-104, as the sequence of its parts
EmptyWarning(ss, sty) ==
    <<"Warning: Filtering ", ss, " data to season_type == ", sty,
      " resulted in 0 rows. Returning empty DataFrame.">>

\* def process_playstats(pbp, seasons, summary_level): no default values
process_playstats_params == <<"pbp", "seasons", "summary_level">>

\* the positional arguments of the call in calculate_stats
calculate_stats_call_args == <<"pbp", "seasons">>

\* the positional arguments of the call in seed_database
seed_database_call_args == <<"pbp_data", "[2024]", "week">>

\* Python binds a call only when every required parameter gets an argument
\* and no argument is left over; otherwise the call raises TypeError
BindsOk(args, params) == Len(args) = Len(params)

\* lines 79-87
Validate ==
    /\ pc = "start"
    /\ LET err == ParamError(summary_level, stat_type, season_type)
       IN  IF err # "none"
           THEN /\ raised' = "ValueError"
                /\ pc' = "raised"
           ELSE /\ pc' = "key"
                /\ UNCHANGED raised
    /\ UNCHANGED <<seasons, summary_level, stat_type, season_type, store_pbp,
                   store_playstats, grp_vctr, pbp, playstats, stats, result,
                   stdout, calls,
                   extractor_stats,
                   cache, db>>

\* lines 89-96
GroupKey ==
    /\ pc = "key"
    /\ grp_vctr' = GrpVctr(summary_level, stat_type)
    /\ pc' = "load"
    /\ UNCHANGED <<seasons, summary_level, stat_type, season_type, store_pbp,
                   store_playstats, pbp, playstats, stats, result, raised,
                   stdout, calls,
                   extractor_stats,
                   cache, db>>

\* line 98: clean_pbp_data(load_pbp(seasons)); clean_pbp_data is called
\* when load_pbp has returned
LoadClean ==
    /\ pc = "load"
    /\ calls' = IF load_pbp_raises(seasons) # {}
                THEN Append(calls, "load_pbp")
                ELSE calls \o <<"load_pbp", "clean_pbp_data">>
    /\ IF load_pbp_raises(seasons) # {}
       THEN /\ pbp' = pbp
            /\ pc' = "raised"
            /\ raised' \in load_pbp_raises(seasons)
       ELSE IF clean_pbp_error(load_pbp(store_pbp)) = "none"
       THEN /\ pbp' = clean_pbp_data(load_pbp(store_pbp))
            /\ pc' = "filter"
            /\ raised' = raised
       ELSE /\ pbp' = pbp
            /\ pc' = "raised"
            /\ raised' = clean_pbp_error(load_pbp(store_pbp))
    /\ UNCHANGED <<seasons, summary_level, stat_type, season_type, store_pbp,
                   store_playstats, grp_vctr, playstats, stats, result, stdout,
                   extractor_stats,
                   cache, db>>

\* lines 100-106
FilterSeasonType ==
    /\ pc = "filter"
    /\ IF FilterApplies(season_type, summary_level)
       THEN LET filtered == SeasonTypeFilter(pbp, season_type)
            IN  IF IsEmpty(filtered)
                THEN /\ pbp' = filtered
                     /\ stdout' = Append(stdout, EmptyWarning(seasons, season_type))
                     /\ result' = EmptyDataFrame
                     /\ pc' = "returned"
                ELSE /\ pbp' = filtered
                     /\ pc' = "enrich"
                     /\ UNCHANGED <<stdout, result>>
       ELSE /\ pc' = "enrich"
            /\ UNCHANGED <<pbp, stdout, result>>
    /\ UNCHANGED <<seasons, summary_level, stat_type, season_type, store_pbp,
                   store_playstats, grp_vctr, playstats, stats, raised, calls,
                   extractor_stats,
                   cache, db>>

\* line 108: playstats = process_playstats(pbp, seasons).  Lines 110-130 (the
\* extractors and process_stats) run after this call returns.
CallProcessPlaystats ==
    /\ pc = "enrich"
    /\ IF BindsOk(calculate_stats_call_args, process_playstats_params)
       THEN /\ calls' = Append(calls, "process_playstats")
            /\ pc' = "extract"
            /\ UNCHANGED raised
       ELSE /\ raised' = "TypeError"
            /\ pc' = "raised"
            /\ UNCHANGED calls
    /\ UNCHANGED <<seasons, summary_level, stat_type, season_type, store_pbp,
                   store_playstats, grp_vctr, pbp, playstats, stats, result,
                   stdout,
                   extractor_stats,
                   cache, db>>

\* the raw plays calculate_stats is run on: of a season of the list, regular
\* and post season, with a valid and with an out-of-range down
PipelinePlays(ss) ==
    {RawPlay(Num(p), Str(g), Num(GameSeason(g)), Str(sty), Str("A"), Str("B"),
             d, Str("pass"), Num(0)) :
        p \in {1}, g \in {g \in Games : GameSeason(g) \in Range(ss)},
        sty \in {"REG", "POST"}, d \in {Num(1), Num(5)}}

Init ==
    /\ seasons \in SeasonLists
    /\ summary_level \in SummaryLevels
    /\ stat_type \in StatTypes
    /\ season_type \in SeasonTypes
    /\ store_pbp \in {Frame(RawColumns, rows) :
                        rows \in SeqsUpTo(PipelinePlays(seasons), MaxPlays)}
    /\ store_playstats = <<>>
    /\ pc = "start"
    /\ grp_vctr = <<>>
    /\ pbp = EmptyDataFrame
    /\ playstats = <<>>
    /\ stats = <<>>
    /\ result = EmptyDataFrame
    /\ raised = "none"
    /\ stdout = <<>>
    /\ calls = <<>>
    /\ extractor_stats = <<>>
    /\ cache = NoCache
    /\ db = NoDatabase

Next ==
    \/ Validate
    \/ GroupKey
    \/ LoadClean
    \/ FilterSeasonType
    \/ CallProcessPlaystats

Spec == Init /\ [][Next]_vars

-----------------------------------------------------------------------------
(* Claims about calculate_stats (specification Spec).                      *)

ValidParams ==
    /\ summary_level \in {"season", "week"}
    /\ stat_type \in {"player", "team"}
    /\ season_type \in {"REG", "POST", "ALL"}

\* calculate_stats has ended: by an exception, by the early return, or it
\* stands after the call of line 108
Ended == pc \in {"raised", "returned", "extract"}

\* the grouping key has been computed (lines 89-96 are behind)
KeyComputed ==
    pc \in {"load", "filter", "enrich", "extract", "returned"} \/ raised = "TypeError"

\* the season_type filter applies and leaves no cleaned play
FilterLeavesNothing ==
    /\ summary_level = "season"
    /\ season_type \in {"REG", "POST"}
    /\ \A i \in 1..Len(clean_pbp_data(store_pbp).rows) :
            clean_pbp_data(store_pbp).rows[i]["season_type"] # Str(season_type)

\* plays are left for enrichment after the season_type filter
PlaysLeft ==
    IF summary_level = "season" /\ season_type \in {"REG", "POST"}
    THEN \E i \in 1..Len(clean_pbp_data(store_pbp).rows) :
            clean_pbp_data(store_pbp).rows[i]["season_type"] = Str(season_type)
    ELSE Len(clean_pbp_data(store_pbp).rows) > 0

\* C1: for every valid (summary_level, stat_type) pair the grouping key is
\* (season, player_id), (season, team), (season, week, game_id, player_id) or
\* (season, week, game_id, team).
C1_GroupingKey ==
    KeyComputed =>
        /\ (summary_level = "season" /\ stat_type = "player"
                => grp_vctr = <<"season", "player_id">>)
        /\ (summary_level = "season" /\ stat_type = "team"
                => grp_vctr = <<"season", "team">>)
        /\ (summary_level = "week" /\ stat_type = "player"
                => grp_vctr = <<"season", "week", "game_id", "player_id">>)
        /\ (summary_level = "week" /\ stat_type = "team"
                => grp_vctr = <<"season", "week", "game_id", "team">>)

C1_Witness ==
    /\ pc = "enrich"
    /\ summary_level = "week"
    /\ stat_type = "team"
    /\ grp_vctr = <<"season", "week", "game_id", "team">>

\* C2: with an invalid summary_level, stat_type or season_type the call ends
\* in a ValueError and no data step (load, cleaning, enrichment) is invoked.
C2_InvalidFailsBeforeData ==
    ~ValidParams =>
        /\ calls = <<>>
        /\ pbp = EmptyDataFrame
        /\ pc \in {"start", "raised"}
        /\ (pc = "raised" => raised = "ValueError")

C2_Witness ==
    /\ summary_level = "season"
    /\ stat_type = "player"
    /\ season_type = "PRE"
    /\ Len(store_pbp.rows) > 0
    /\ pc = "raised"
    /\ raised = "ValueError"
    /\ calls = <<>>

\* C3: at season level, when the REG/POST filter removes every cleaned play,
\* the call returns the empty DataFrame and prints the warning; it raises
\* nothing and does not reach enrichment.
C3_EmptyResultAndDiagnostic ==
    (ValidParams /\ FilterLeavesNothing /\ Ended) =>
        /\ pc = "returned"
        /\ raised = "none"
        /\ result = EmptyDataFrame
        /\ stdout = <<EmptyWarning(seasons, season_type)>>
        /\ "process_playstats" \notin Range(calls)
        /\ playstats = <<>>
        /\ stats = <<>>

C3_Witness ==
    /\ pc = "returned"
    /\ season_type = "POST"
    /\ Len(clean_pbp_data(store_pbp).rows) > 0
    /\ result = EmptyDataFrame
    /\ stdout = <<EmptyWarning(seasons, season_type)>>

\* C4 (as claimed): when the season_type filter leaves no row, calculate_stats
\* raises ValueError.
C4_RaisesValueErrorOnEmpty ==
    (ValidParams /\ FilterLeavesNothing /\ Ended) => raised = "ValueError"

\* C5 (as claimed): with valid parameters and plays left after the filter,
\* calculate_stats calls process_playstats with the arguments it requires and
\* goes on to extraction and aggregation; it does not end in an error.
C5_PipelineRunsThrough ==
    (ValidParams /\ PlaysLeft /\ Ended) =>
        /\ raised = "none"
        /\ pc = "extract"
        /\ calls = <<"load_pbp", "clean_pbp_data", "process_playstats">>

\* C6: the plays handed to enrichment are the cleaned plays filtered by
\* season_type only at season level with REG or POST; at week level they are
\* all cleaned plays, whatever season_type is.
C6_FilterOnlyAtSeasonLevel ==
    (pc \in {"enrich", "extract"} \/ raised = "TypeError") =>
        IF summary_level = "season" /\ season_type \in {"REG", "POST"}
        THEN pbp = Frame(clean_pbp_data(store_pbp).columns,
                         SelectSeq(clean_pbp_data(store_pbp).rows,
                                   LAMBDA r : r["season_type"] = Str(season_type)))
        ELSE pbp = clean_pbp_data(store_pbp)

C6_Witness ==
    /\ pc = "enrich"
    /\ summary_level = "week"
    /\ season_type = "REG"
    /\ \E i \in 1..Len(pbp.rows) : pbp.rows[i]["season_type"] = Str("POST")

-----------------------------------------------------------------------------
(* The cleaner on its own: clean_pbp_data(raw) for a raw play table.       *)

\* raw plays with every combination of a missing or present play_id,
\* game_id and season, a missing, valid, out-of-range, malformed or
\* fractional (2.5) down, and a valid or unknown play_type
CleanerPlays ==
    {RawPlay(p, g, se, Str("REG"), Str("STL"), Str("B"), d, pt, Null) :
        p \in {Null, Num(1)}, g \in {Null, Str("2015_01_A_B")},
        se \in {Null, Num(2015)},
        d \in {Null, Num(1), Num(5), Str("x"), Half(5)},
        pt \in {Str("pass"), Str("bogus")}}

\* the columns of the raw table: all of them, or the provider left season
\* or down out
CleanerColumnSets ==
    {RawColumns, RawColumns \ {"season"}, RawColumns \ {"down"}}

\* the rows of a raw table that has the columns cols
ProjectRows(cols, rows) == [i \in 1..Len(rows) |-> [c \in cols |-> rows[i][c]]]

InitClean ==
    /\ seasons = <<2015>>
    /\ summary_level = "week"
    /\ stat_type = "player"
    /\ season_type = "ALL"
    /\ store_pbp \in {Frame(cols, ProjectRows(cols, rows)) :
                        cols \in CleanerColumnSets,
                        rows \in SeqsUpTo(CleanerPlays, MaxPlays)}
    /\ store_playstats = <<>>
    /\ pc = "raw"
    /\ grp_vctr = <<>>
    /\ pbp = EmptyDataFrame
    /\ playstats = <<>>
    /\ stats = <<>>
    /\ result = EmptyDataFrame
    /\ raised = "none"
    /\ stdout = <<>>
    /\ calls = <<>>
    /\ extractor_stats = <<>>
    /\ cache = NoCache
    /\ db = NoDatabase

\* pbp = clean_pbp_data(load_pbp(seasons)): calculate_stats line 98,
\* seed_database line 90
Clean ==
    /\ pc = "raw"
    /\ IF load_pbp_raises(seasons) # {}
       THEN /\ pbp' = pbp
            /\ pc' = "raised"
            /\ raised' \in load_pbp_raises(seasons)
       ELSE IF clean_pbp_error(load_pbp(store_pbp)) = "none"
       THEN /\ pbp' = clean_pbp_data(load_pbp(store_pbp))
            /\ pc' = "cleaned"
            /\ raised' = raised
       ELSE /\ pbp' = pbp
            /\ pc' = "raised"
            /\ raised' = clean_pbp_error(load_pbp(store_pbp))
    /\ UNCHANGED <<seasons, summary_level, stat_type, season_type, store_pbp,
                   store_playstats, grp_vctr, playstats, stats, result, stdout,
                   calls,
                   extractor_stats,
                   cache, db>>

\* clean_pbp_data applied to its own result (the cleaned table is cleaned
\* again, as when cleaned plays are reloaded and passed through the cleaner)
CleanAgain ==
    /\ pc = "cleaned"
    /\ clean_pbp_error(pbp) = "none"
    /\ result' = clean_pbp_data(pbp)
    /\ pc' = "recleaned"
    /\ UNCHANGED <<seasons, summary_level, stat_type, season_type, store_pbp,
                   store_playstats, grp_vctr, pbp, playstats, stats, raised,
                   stdout, calls,
                   extractor_stats,
                   cache, db>>

NextClean ==
    \/ Clean
    \/ CleanAgain

SpecClean == InitClean /\ [][NextClean]_vars

-----------------------------------------------------------------------------
(* The data flow past the call of process_playstats: cleaning, enrichment  *)
(* with the three arguments of the signature (as seed_database line 93     *)
(* calls it), then aggregation by a direct call of process_stats.          *)

Event(g, play, player, team, stat, yards) ==
    [season         |-> GameSeason(g),
     week           |-> 1,
     game_id        |-> g,
     play_id        |-> play,
     gsis_player_id |-> player,
     player_name    |-> IF player = Str("P1") THEN Str("N1")
                        ELSE IF player = Str("P2") THEN Str("N2") ELSE Null,
     team_abbr      |-> team,
     stat_id        |-> stat,
     yards          |-> yards]

\* the events of the playstats files: a pass touchdown and its reception in
\* 2005, a completion, its target and reception, an incompletion on a second
\* play and a team event in 2015
StatsEvents ==
    {Event("2005_01_A_B", 1, Str("P1"), "A", 16, 20),
     Event("2005_01_A_B", 1, Str("P2"), "A", 22, 20),
     Event("2005_01_A_B", 1, Str("P2"), "A", 115, 0),
     Event("2015_01_A_B", 1, Str("P1"), "A", 15, 10),
     Event("2015_01_A_B", 1, Str("P2"), "A", 21, 10),
     Event("2015_01_A_B", 1, Str("P2"), "A", 115, 0),
     Event("2015_01_A_B", 2, Str("P1"), "A", 14, 0),
     Event("2015_01_A_B", 1, Null, "A", 4, 0)}

\* the raw plays of the two games; the second play of the 2015 game comes
\* with a valid and with an out-of-range down
StatsPlays ==
    {RawPlay(Num(1), Str("2005_01_A_B"), Num(2005), Str("REG"), Str("A"), Str("B"),
             Num(1), Str("pass"), Num(0)),
     RawPlay(Num(1), Str("2015_01_A_B"), Num(2015), Str("REG"), Str("A"), Str("B"),
             Num(1), Str("pass"), Num(0)),
     RawPlay(Num(2), Str("2015_01_A_B"), Num(2015), Str("REG"), Str("A"), Str("B"),
             Num(2), Str("pass"), Num(0)),
     RawPlay(Num(2), Str("2015_01_A_B"), Num(2015), Str("REG"), Str("A"), Str("B"),
             Num(5), Str("pass"), Num(0))}

InitStats ==
    /\ seasons \in SeasonLists
    /\ summary_level = "none"
    /\ stat_type = "none"
    /\ season_type = "ALL"
    /\ store_pbp \in {Frame(RawColumns, rows) :
                        rows \in SeqsUpTo(StatsPlays, MaxPlays)}
    /\ store_playstats \in SeqsUpTo(StatsEvents, MaxEvents)
    /\ pc = "raw"
    /\ grp_vctr = <<>>
    /\ pbp = EmptyDataFrame
    /\ playstats = <<>>
    /\ stats = <<>>
    /\ result = EmptyDataFrame
    /\ raised = "none"
    /\ stdout = <<>>
    /\ calls = <<>>
    /\ extractor_stats = <<>>
    /\ cache = NoCache
    /\ db = NoDatabase

\* seed.py line 94: playstats["special"] = playstats["special"].fillna(0)
fill_special(r) == [r EXCEPT !.special = fillna(r.special, Num(0))]

\* seed.py lines 93-94: playstats = process_playstats(pbp, seasons,
\* summary_level), then the nulls of special filled with 0
Enrich ==
    /\ pc = "cleaned"
    /\ BindsOk(seed_database_call_args, process_playstats_params)
    /\ IF load_playstats_raises(seasons) = {}
       THEN /\ playstats' = SeqMap(fill_special,
                                   process_playstats(pbp, seasons, store_playstats))
            /\ pc' = "enriched"
            /\ raised' = raised
       ELSE /\ playstats' = playstats
            /\ pc' = "raised"
            /\ raised' \in load_playstats_raises(seasons)
    /\ UNCHANGED <<seasons, summary_level, stat_type, season_type, store_pbp,
                   store_playstats, grp_vctr, pbp, stats, result,
                   stdout, calls,
                   extractor_stats,
                   cache, db>>

\* the statistic columns of the five extractor tables (pbp_off_stats.py)
passing_columns == {"passing_epa", "passing_cpoe", "passing_success_rate"}

rushing_columns == {"rushing_epa"}

receiving_columns == {"receiving_epa"}

dropback_columns ==
    {"dropbacks", "dropback_epa", "dropback_success_rate", "epa_per_dropback"}

scramble_columns ==
    {"scrambles", "scramble_epa", "epa_per_scramble", "scramble_success_rate"}

\* the row of an extractor table for player P1 of team A in the 2015 game
ExtractorRow(grp, cols, v) ==
    [c \in Range(grp) \cup cols |->
        CASE c = "season"    -> 2015
          [] c = "week"      -> 1
          [] c = "game_id"   -> "2015_01_A_B"
          [] c = "player_id" -> "P1"
          [] c = "team"      -> "A"
          [] OTHER           -> v]

\* the tables passed for the five *_stats_from_pbp parameters of
\* process_stats (lines 11-15) in a direct call: all five without rows; the
\* passing table with a row; the passing and the rushing table with a row.
\* They are arguments of the call, not computed from pbp.
ExtractorInputs(grp) ==
    LET none(cols) == ExtractorTable(cols, <<>>)
        one(cols)  == ExtractorTable(cols, <<ExtractorRow(grp, cols, 3)>>)
    IN  {<<none(passing_columns), none(rushing_columns), none(receiving_columns),
           none(dropback_columns), none(scramble_columns)>>,
         <<one(passing_columns), none(rushing_columns), none(receiving_columns),
           none(dropback_columns), none(scramble_columns)>>,
         <<one(passing_columns), one(rushing_columns), none(receiving_columns),
           none(dropback_columns), none(scramble_columns)>>}

\* stats = process_stats(playstats, grp_vars, stat_type, summary_level,
\* passing, rushing, receiving, dropback, scramble): a direct call of
\* process_stats (process_stats.py lines 6-440) on the enriched events, with
\* a grouping key of calculate_stats lines 89-96 and extractor tables given
\* as arguments
Aggregate ==
    /\ pc = "enriched"
    /\ \E sl \in {"season", "week"}, st \in {"player", "team"} :
        \E ext \in ExtractorInputs(GrpVctr(sl, st)) :
            /\ summary_level' = sl
            /\ stat_type' = st
            /\ grp_vctr' = GrpVctr(sl, st)
            /\ extractor_stats' = ext
            /\ playstats' = playstats_after_process_stats(playstats, st)
            /\ IF process_stats_raises(playstats, sl) = {}
               THEN /\ stats' = process_stats(playstats, GrpVctr(sl, st), st, sl,
                                              ext[1], ext[2], ext[3], ext[4], ext[5])
                    /\ pc' = "aggregated"
                    /\ raised' = raised
               ELSE /\ stats' = stats
                    /\ pc' = "raised"
                    /\ raised' \in process_stats_raises(playstats, sl)
    /\ UNCHANGED <<seasons, season_type, store_pbp, store_playstats, pbp,
                   result, stdout, calls,
                   cache, db>>

NextStats ==
    \/ Clean
    \/ Enrich
    \/ Aggregate

SpecStats == InitStats /\ [][NextStats]_vars

-----------------------------------------------------------------------------
(* The same data flow on the events of two games of one week: a pass       *)
(* touchdown, a target, completed air yards behind the line of scrimmage   *)
(* (negative), and team events without a player in both games.             *)

AggregationEvents ==
    {Event("2015_01_A_B", 1, Str("P1"), "A", 16, 20),
     Event("2015_01_A_B", 1, Str("P2"), "A", 115, 0),
     Event("2015_01_A_B", 1, Str("P1"), "A", 111, -2),
     Event("2015_01_A_B", 1, Null, "A", 4, 0),
     Event("2015_01_C_D", 1, Null, "C", 52, 0),
     Event("2005_01_A_B", 1, Str("P1"), "A", 16, 20)}

\* the first play of each of the three games
AggregationPlays ==
    {RawPlay(Num(1), Str("2015_01_A_B"), Num(2015), Str("REG"), Str("A"), Str("B"),
             Num(1), Str("pass"), Num(0)),
     RawPlay(Num(1), Str("2015_01_C_D"), Num(2015), Str("REG"), Str("C"), Str("D"),
             Num(1), Str("run"), Num(0)),
     RawPlay(Num(1), Str("2005_01_A_B"), Num(2005), Str("REG"), Str("A"), Str("B"),
             Num(1), Str("pass"), Num(0))}

InitAggregation ==
    /\ seasons \in SeasonLists
    /\ summary_level = "none"
    /\ stat_type = "none"
    /\ season_type = "ALL"
    /\ store_pbp \in {Frame(RawColumns, rows) :
                        rows \in SeqsUpTo(AggregationPlays, MaxPlays)}
    /\ store_playstats \in SeqsUpTo(AggregationEvents, MaxEvents)
    /\ pc = "raw"
    /\ grp_vctr = <<>>
    /\ pbp = EmptyDataFrame
    /\ playstats = <<>>
    /\ stats = <<>>
    /\ result = EmptyDataFrame
    /\ raised = "none"
    /\ stdout = <<>>
    /\ calls = <<>>
    /\ extractor_stats = <<>>
    /\ cache = NoCache
    /\ db = NoDatabase

SpecAggregation == InitAggregation /\ [][NextStats]_vars

-----------------------------------------------------------------------------
(* Claims about the enricher and the aggregator (specification SpecStats). *)

Enriched == pc \in {"enriched", "aggregated"}

\* the era rule of the data: codes 21, 22 and 115 denote a target in the
\* seasons 2003..2008, code 115 alone in every other season
EraTarget(season, stat_id) ==
    IF season >= 2003 /\ season <= 2008
    THEN stat_id \in {21, 22, 115}
    ELSE stat_id = 115

\* C7: for every enriched event, is_target is true exactly when the era rule
\* of its season says so, and team_game_targets is the number of events of
\* its (season, game, team) that are targets by the same rule, for every
\* seasons list.
C7_EraInvariant ==
    Enriched =>
        \A i \in 1..Len(playstats) :
            LET r == playstats[i]
            IN  /\ r.is_target = (IF EraTarget(r.season, r.stat_id) THEN 1 ELSE 0)
                /\ r.team_game_targets =
                      Cardinality({j \in 1..Len(playstats) :
                          /\ playstats[j].season = r.season
                          /\ playstats[j].game_id = r.game_id
                          /\ playstats[j].team = r.team
                          /\ EraTarget(playstats[j].season, playstats[j].stat_id)})

C7_Witness ==
    /\ pc = "enriched"
    /\ seasons = <<2005, 2015>>
    /\ \E i, j \in 1..Len(playstats) :
        /\ playstats[i].season = 2005
        /\ playstats[i].stat_id = 22
        /\ playstats[i].is_target = 1
        /\ playstats[i].team_game_targets = 1
        /\ playstats[j].season = 2015
        /\ playstats[j].stat_id = 21
        /\ playstats[j].is_target = 0
        /\ playstats[j].team_game_targets = 0

\* C8: for every enriched event is_att only with stat_id in {14, 15, 16, 19},
\* is_comp only with stat_id in {15, 16}, and is_comp implies is_att; every
\* aggregated row has completions <= attempts.
C8_CompletionsWithinAttempts ==
    /\ Enriched =>
        \A i \in 1..Len(playstats) :
            LET r == playstats[i]
            IN  /\ r.is_att => r.stat_id \in {14, 15, 16, 19}
                /\ r.is_comp => r.stat_id \in {15, 16}
                /\ r.is_comp => r.is_att
    /\ pc = "aggregated" =>
        \A i \in 1..Len(stats) : stats[i].completions <= stats[i].attempts

C8_Witness ==
    /\ pc = "aggregated"
    /\ \E i \in 1..Len(stats) :
        /\ stats[i].completions = 1
        /\ stats[i].attempts = 2

\* C9 (as claimed): no event of a play that the cleaner dropped is among the
\* enriched events: an enriched event whose play is in the raw play table has
\* its play in the cleaned play table.
C9_NoEventOfDroppedPlay ==
    Enriched =>
        \A i \in 1..Len(playstats) :
            (\E j \in 1..Len(store_pbp.rows) :
                /\ store_pbp.rows[j]["game_id"] = Str(playstats[i].game_id)
                /\ store_pbp.rows[j]["play_id"] = Num(playstats[i].play_id))
            => (\E j \in 1..Len(pbp.rows) :
                /\ pbp.rows[j]["game_id"] = Str(playstats[i].game_id)
                /\ pbp.rows[j]["play_id"] = Num(playstats[i].play_id))

-----------------------------------------------------------------------------
(* Claims about the cleaner (specification SpecClean).                     *)

\* the raw row has play_id, game_id and season
HasCriticalFields(r) == \A c \in critical_fields : ~isna(r[c])

\* C10 (as claimed): every raw play missing play_id, game_id or season is
\* dropped: the cleaned table has no more rows than the raw table has rows
\* with all three fields.
C10_MissingCriticalDropped ==
    pc = "cleaned" =>
        Len(pbp.rows) <= Len(SelectSeq(store_pbp.rows, HasCriticalFields))

\* a raw row that no rule other than the rule on down removes
ValidApartFromDown(r) ==
    /\ HasCriticalFields(r)
    /\ ~isna(to_numeric(r["play_id"]))
    /\ (isna(r["play_type"]) \/ r["play_type"].s \in valid_play_types)

\* a raw row the rule on down keeps: down is null or within 1..4
DownNullOrInRange(r) ==
    \/ isna(r["down"])
    \/ r["down"].k \in {"num", "half"} /\ Twice(r["down"]) \in 2..8

RetainedByDownRule(r) == ValidApartFromDown(r) /\ DownNullOrInRange(r)

\* C11 (as claimed): a row is dropped on account of its down only when the
\* down is present and outside 1..4: every cleaned row has down null or in
\* 1..4, and every raw row that is otherwise valid and whose down is null or
\* in 1..4 is retained (the cleaned table has at least as many rows as the
\* raw table has such rows).
C11_NullDownRetained ==
    (pc = "cleaned" /\ "down" \in store_pbp.columns) =>
        /\ \A i \in 1..Len(pbp.rows) : DownNullOrInRange(pbp.rows[i])
        /\ Len(pbp.rows) >= Len(SelectSeq(store_pbp.rows, RetainedByDownRule))

\* C12 (as claimed): no two rows of the cleaned play table have the same
\* (season, play_id, game_id).
C12_TripleUnique ==
    pc = "cleaned" =>
        \A i, j \in 1..Len(pbp.rows) :
            i # j =>
                <<pbp.rows[i]["season"], pbp.rows[i]["play_id"],
                  pbp.rows[i]["game_id"]>>
                # <<pbp.rows[j]["season"], pbp.rows[j]["play_id"],
                    pbp.rows[j]["game_id"]>>

\* C13 (as claimed): clean_pbp_data never raises, whatever the columns and
\* the values of the raw table.
C13_CleanerNeverRaises == pc # "raw" => raised = "none"

\* C14 (as claimed): cleaning a cleaned table changes nothing: same
\* columns, same rows, same values, and the second validation drops no row.
C14_CleanerIdempotent ==
    pc = "recleaned" =>
        /\ result = pbp
        /\ Len(result.rows) = Len(pbp.rows)

-----------------------------------------------------------------------------
(* Claims about enrichment and aggregation (specification SpecAggregation).*)

\* a quotient is present (not NaN) and its denominator is positive
PositiveQuot(q) == q # NaN /\ q[2] > 0

\* C15 (as claimed): in every player-level row, target_share and
\* air_yards_share are never a quotient by zero, and wopr is present only
\* when both shares are present with a positive team denominator.
C15_SharesNullUnlessPositive ==
    (pc = "aggregated" /\ stat_type = "player") =>
        \A i \in 1..Len(stats) :
            /\ stats[i].target_share # NaN => stats[i].target_share[2] # 0
            /\ stats[i].air_yards_share # NaN => stats[i].air_yards_share[2] # 0
            /\ stats[i].wopr # NaN =>
                    /\ PositiveQuot(stats[i].target_share)
                    /\ PositiveQuot(stats[i].air_yards_share)

\* the enriched events of the group an aggregated row stands for
GroupOf(row) ==
    SelectSeq(playstats, LAMBDA r : \A c \in Range(grp_vctr) : r[c] = row[c])

\* C16: the passing_yards of every aggregated row is the sum of yards over
\* the events of its group whose is_comp is true.
C16_PassingYardsConserved ==
    pc = "aggregated" =>
        \A i \in 1..Len(stats) :
            stats[i].passing_yards =
                SumSeq(SeqMap(LAMBDA r : r.yards,
                              SelectSeq(GroupOf(stats[i]), LAMBDA r : r.is_comp)))

\* a passer with a 20 yard touchdown pass and -2 completed air yards
C16_Witness ==
    /\ pc = "aggregated"
    /\ stat_type = "player"
    /\ \E i \in 1..Len(stats) :
        /\ stats[i].player_id = "P1"
        /\ Len(GroupOf(stats[i])) = 2
        /\ stats[i].passing_yards = 20
        /\ stats[i].passing_air_yards = -2

\* the stat codes the events of the same team on the same play of the same
\* game record
TeamPlayCodes(r) ==
    {playstats[j].stat_id : j \in {j \in 1..Len(playstats) :
        /\ playstats[j].game_id = r.game_id
        /\ playstats[j].play_id = r.play_id
        /\ playstats[j].team = r.team}}

\* C17: an event of a season outside 2003..2008 counts as qb_target exactly
\* when it is a pass attempt and its team recorded code 115 on the play; a
\* group that is one pass touchdown event has completions, attempts and
\* passing_tds 1, targets 0, and qb_targets 1 or 0 by the same rule.
C17_QbTargetCrossCheck ==
    /\ Enriched =>
        \A i \in 1..Len(playstats) :
            LET r == playstats[i]
            IN  r.season \notin 2003..2008 =>
                    (r.qb_target <=>
                        (r.stat_id \in {14, 15, 16, 19} /\ 115 \in TeamPlayCodes(r)))
    /\ pc = "aggregated" =>
        \A i \in 1..Len(stats) :
            LET g == GroupOf(stats[i])
            IN  (Len(g) = 1 /\ g[1].stat_id = 16 /\ g[1].season \notin 2003..2008) =>
                    /\ stats[i].completions = 1
                    /\ stats[i].attempts = 1
                    /\ stats[i].passing_tds = 1
                    /\ stats[i].targets = 0
                    /\ stats[i].qb_targets =
                          (IF 115 \in TeamPlayCodes(g[1]) THEN 1 ELSE 0)

\* a lone pass touchdown of 2015 with the target of the play recorded
C17_Witness ==
    /\ pc = "aggregated"
    /\ stat_type = "player"
    /\ seasons = <<2015>>
    /\ \E i \in 1..Len(stats) :
        /\ stats[i].player_id = "P1"
        /\ stats[i].passing_tds = 1
        /\ stats[i].targets = 0
        /\ stats[i].qb_targets = 1

\* the five extractor tables passed to process_stats have no row
AllExtractorsEmpty ==
    /\ Len(extractor_stats) = 5
    /\ \A i \in 1..5 : extractor_stats[i].rows = <<>>

ExtractorColumns ==
    passing_columns \cup rushing_columns \cup receiving_columns
        \cup dropback_columns \cup scramble_columns

\* C18: with five extractor tables without rows, process_stats returns the
\* aggregated table itself: the same rows with the same values, and no
\* extractor column.
C18_EmptyExtractorsChangeNothing ==
    (pc = "aggregated" /\ AllExtractorsEmpty) =>
        /\ stats = aggregate_groups(playstats, grp_vctr, stat_type, summary_level)
        /\ \A i \in 1..Len(stats) : DOMAIN stats[i] \cap ExtractorColumns = {}

C18_Witness ==
    /\ pc = "aggregated"
    /\ AllExtractorsEmpty
    /\ Len(stats) = 2
    /\ stat_type = "player"
    /\ summary_level = "week"

\* C19 (as claimed): process_stats leaves the enriched events it is given as
\* they are.
C19_InputUnchanged == [][pc = "enriched" => playstats' = playstats]_vars

\* the stat codes the same player records on the same play of the same game
PlayerPlayCodes(r) ==
    {playstats[j].stat_id : j \in {j \in 1..Len(playstats) :
        /\ playstats[j].game_id = r.game_id
        /\ playstats[j].play_id = r.play_id
        /\ playstats[j].player_id = r.player_id}}

\* the codes of a joined stat list
CodesOf(list) == {c \in Range(list) : c # ""}

\* C20 (as claimed): the player-play stat list of an event holds exactly the
\* codes of the same player on the same play of the same game, the team-play
\* stat list exactly those of the same team on that play.
C20_StatListsOfSamePlay ==
    pc = "enriched" =>
        \A i \in 1..Len(playstats) :
            LET r == playstats[i]
            IN  /\ CodesOf(r.more_stats) = {ToString(c) : c \in PlayerPlayCodes(r)}
                /\ CodesOf(r.team_stats) = {ToString(c) : c \in TeamPlayCodes(r)}

-----------------------------------------------------------------------------
(* pbp_off_stats.py: the receiving extractor, called directly on the       *)
(* cleaned plays (specification SpecExtract).  epa is carried in tenths    *)
(* of a point, as an integer.                                              *)

\* the value of a cell that is not null
CellValue(c) == IF c.k = "num" THEN c.n ELSE c.s

\* clean_grp_vctr(grp_vctr), lines 4-29
clean_grp_vctr(grp) == SelectSeq(grp, LAMBDA c : c \notin {"player_id", "team"})

\* Series.notna(): only None and NaN are missing, the empty string is not
notna(c) == ~isna(c)

\* query("receiver_player_id.notna()"), line 176
HasReceiver(r) == notna(r["receiver_player_id"])

\* .loc[:, ...].rename(columns={"posteam": "team",
\* "receiver_player_id": "player_id"}), lines 178-181: the cell of a grouping
\* column in the selected table
ReceivingCell(r, c) ==
    CASE c = "team"      -> r["posteam"]
      [] c = "player_id" -> r["receiver_player_id"]
      [] OTHER           -> r[c]

\* x.sum(skipna=True) of the epa cells of rows
SumEpa(rows) ==
    SumOver(LAMBDA r : IF isna(r["epa"]) THEN 0 ELSE r["epa"].n, rows)

\* get_receiving_stats(pbp, grp_vctr), lines 143-189: groupby leaves out the
\* rows with a null in a grouping column and sorts the keys
get_receiving_stats(df, grp) ==
    LET kept == SelectSeq(df.rows,
                    LAMBDA r : /\ HasReceiver(r)
                               /\ \A c \in Range(grp) : notna(ReceivingCell(r, c)))
        keyof(r) == SeqMap(LAMBDA c : CellValue(ReceivingCell(r, c)), grp)
        keys == SortKeys(grp, {keyof(kept[i]) : i \in 1..Len(kept)})
    IN  ExtractorTable(receiving_columns,
            SeqMap(LAMBDA k :
                      [c \in Range(grp) \cup receiving_columns |->
                          IF c \in Range(grp)
                          THEN k[CHOOSE i \in 1..Len(grp) : grp[i] = c]
                          ELSE SumEpa(SelectSeq(kept, LAMBDA r : keyof(r) = k))],
                   keys))

\* the columns of the raw plays the receiving extractor reads
ExtractColumns ==
    {"play_id", "game_id", "season", "week", "posteam", "defteam", "play_type",
     "receiver_player_id", "epa"}

ExtractPlay(play_id, ptype, receiver, epa) ==
    [c \in ExtractColumns |->
        CASE c = "play_id"            -> Num(play_id)
          [] c = "game_id"            -> Str("2015_01_A_B")
          [] c = "season"             -> Num(2015)
          [] c = "week"               -> Num(1)
          [] c = "posteam"            -> Str("A")
          [] c = "defteam"            -> Str("B")
          [] c = "play_type"          -> Str(ptype)
          [] c = "receiver_player_id" -> receiver
          [] c = "epa"                -> epa]

\* two passes with a receiver, a pass without epa, a run and a kneel-down
\* (the provider gives no receiver for them)
ExtractPlays ==
    {ExtractPlay(1, "pass", Str("P1"), Num(3)),
     ExtractPlay(2, "pass", Str("P2"), Num(-1)),
     ExtractPlay(3, "pass", Str("P1"), Null),
     ExtractPlay(4, "run", Null, Num(2)),
     ExtractPlay(5, "qb_kneel", Null, Num(-1))}

InitExtract ==
    /\ seasons = <<2015>>
    /\ summary_level = "none"
    /\ stat_type = "none"
    /\ season_type = "ALL"
    /\ store_pbp \in {Frame(ExtractColumns, rows) :
                        rows \in SeqsUpTo(ExtractPlays, MaxPlays)}
    /\ store_playstats = <<>>
    /\ pc = "raw"
    /\ grp_vctr = <<>>
    /\ pbp = EmptyDataFrame
    /\ playstats = <<>>
    /\ stats = <<>>
    /\ result = EmptyDataFrame
    /\ raised = "none"
    /\ stdout = <<>>
    /\ calls = <<>>
    /\ extractor_stats = <<>>
    /\ cache = NoCache
    /\ db = NoDatabase

\* get_receiving_stats(pbp, grp_vars) (pbp_off_stats.py lines 143-189), called
\* directly on the cleaned plays with a grouping key of calculate_stats lines
\* 89-96.  calculate_stats itself does not come to its call of line 113: the
\* call of process_playstats at line 108 raises before (CallProcessPlaystats).
Extract ==
    /\ pc = "cleaned"
    /\ \E sl \in {"season", "week"}, st \in {"player", "team"} :
            /\ summary_level' = sl
            /\ stat_type' = st
            /\ grp_vctr' = GrpVctr(sl, st)
            /\ extractor_stats' = get_receiving_stats(pbp, GrpVctr(sl, st))
    /\ pc' = "extracted"
    /\ UNCHANGED <<seasons, season_type, store_pbp, store_playstats, pbp,
                   playstats, stats, result, raised, stdout, calls,
                   cache, db>>

NextExtract ==
    \/ Clean
    \/ Extract

SpecExtract == InitExtract /\ [][NextExtract]_vars

\* the raw plays of a receiving group: the plays of the table whose provider
\* row names a receiver and whose renamed grouping cells are the group's key
RawPlaysWithReceiver(row) ==
    SelectSeq(store_pbp.rows,
        LAMBDA r : /\ ~isna(r["receiver_player_id"])
                   /\ \A c \in Range(grp_vctr) :
                          ReceivingCell(r, c) = (IF c \in {"season", "week"}
                                                 THEN Num(row[c]) ELSE Str(row[c])))

\* C21: the receiving_epa of a group is the sum of epa over the plays that
\* have a receiver identified; a play without a receiver contributes nothing
\* (and so founds no group of its own).
C21_ReceivingEpaOnlyOfReceivers ==
    pc = "extracted" =>
        \A i \in 1..Len(extractor_stats.rows) :
            LET row == extractor_stats.rows[i]
            IN  /\ RawPlaysWithReceiver(row) # <<>>
                /\ row["receiving_epa"] = SumEpa(RawPlaysWithReceiver(row))

-----------------------------------------------------------------------------
(* The same data flow on the events of one season: two games of team A in  *)
(* weeks 1 and 2, a receiver with two targets in one game and a target in  *)
(* each game, a receiver who is with team A in week 1 and with team C in   *)
(* week 2, a pass with its air yards, and a first down of each team in the *)
(* second game, recorded without a player.                                 *)

\* an event of the week-2 game
Week2Event(play, player, team, stat, yards) ==
    [Event("2015_02_A_C", play, player, team, stat, yards) EXCEPT !.week = 2]

SeasonEvents ==
    {Event("2015_01_A_B", 1, Str("P1"), "A", 115, 0),
     Event("2015_01_A_B", 2, Str("P1"), "A", 115, 0),
     Event("2015_01_A_B", 1, Str("P2"), "A", 112, 5),
     Event("2015_01_A_B", 3, Str("P2"), "A", 115, 0),
     Week2Event(1, Str("P1"), "A", 115, 0),
     Week2Event(2, Str("P2"), "C", 115, 0),
     Week2Event(1, Null, "A", 4, 0),
     Week2Event(2, Null, "C", 4, 0)}

\* a play of the first game, and a play of each team in the second
SeasonPlays ==
    {RawPlay(Num(1), Str("2015_01_A_B"), Num(2015), Str("REG"), Str("A"), Str("B"),
             Num(1), Str("pass"), Num(0)),
     [RawPlay(Num(1), Str("2015_02_A_C"), Num(2015), Str("REG"), Str("A"), Str("C"),
              Num(1), Str("pass"), Num(0)) EXCEPT !["week"] = Num(2)],
     [RawPlay(Num(2), Str("2015_02_A_C"), Num(2015), Str("REG"), Str("C"), Str("A"),
              Num(1), Str("pass"), Num(0)) EXCEPT !["week"] = Num(2)]}

InitSeason ==
    /\ seasons = <<2015>>
    /\ summary_level = "none"
    /\ stat_type = "none"
    /\ season_type = "ALL"
    /\ store_pbp \in {Frame(RawColumns, rows) :
                        rows \in SeqsUpTo(SeasonPlays, MaxPlays)}
    /\ store_playstats \in SeqsUpTo(SeasonEvents, MaxEvents)
    /\ pc = "raw"
    /\ grp_vctr = <<>>
    /\ pbp = EmptyDataFrame
    /\ playstats = <<>>
    /\ stats = <<>>
    /\ result = EmptyDataFrame
    /\ raised = "none"
    /\ stdout = <<>>
    /\ calls = <<>>
    /\ extractor_stats = <<>>
    /\ cache = NoCache
    /\ db = NoDatabase

SpecSeason == InitSeason /\ [][NextStats]_vars

\* the enriched events of the player and the team of an aggregated row
EventsWithTeam(row) ==
    SelectSeq(playstats, LAMBDA r : /\ r.season = row.season
                                    /\ r.player_id = row.player_id
                                    /\ r.team = row.team)

\* the total of a team in a game, as the enriched events of the team in that
\* game carry it
TeamGameTotal(g, team, col) ==
    LET i == CHOOSE i \in 1..Len(playstats) :
                 playstats[i].game_id = g /\ playstats[i].team = team
    IN  playstats[i][col]

\* the totals of a team summed over a set of games, each game once
RECURSIVE TotalOverGames(_, _, _)
TotalOverGames(G, team, col) ==
    IF G = {} THEN 0
    ELSE LET g == CHOOSE x \in G : TRUE
         IN  TeamGameTotal(g, team, col) + TotalOverGames(G \ {g}, team, col)

SeasonPlayerRows == pc = "aggregated" /\ summary_level = "season" /\ stat_type = "player"

\* C22: at season level the denominator of a player's target_share (and of
\* air_yards_share) is the sum, over the distinct games in which the player
\* has an event with the row's team, of that team's game total, each game
\* counted once.
C22_SeasonDenominators ==
    SeasonPlayerRows =>
        \A i \in 1..Len(stats) :
            LET row == stats[i]
                G   == Distinct(EventsWithTeam(row), "game_id")
            IN  /\ row.target_share # NaN =>
                       /\ row.target_share[1] = row.targets
                       /\ row.target_share[2] =
                              TotalOverGames(G, row.team, "team_game_targets")
                /\ row.air_yards_share # NaN =>
                       /\ row.air_yards_share[1] = row.receiving_air_yards
                       /\ row.air_yards_share[2] =
                              TotalOverGames(G, row.team, "team_game_air_yards")

\* a player with two targets in one game: the game's total of 2 is counted
\* once
C22_Witness ==
    /\ SeasonPlayerRows
    /\ \E i \in 1..Len(stats) :
          /\ Len(EventsWithTeam(stats[i])) = 2
          /\ Cardinality(Distinct(EventsWithTeam(stats[i]), "game_id")) = 1
          /\ stats[i].target_share = Quot(2, 2)

-----------------------------------------------------------------------------
(* Claims about the derived metrics (specification SpecAggregation).       *)

\* C23, as the spec words it: passing_yards_after_catch is passing_yards
\* minus the sum of air_yards over the events of the group whose is_comp is
\* true.
C23_MinusAirYardsOfCompRows ==
    pc = "aggregated" =>
        \A i \in 1..Len(stats) :
            stats[i].passing_yards_after_catch =
                stats[i].passing_yards
                - SumSeq(SeqMap(LAMBDA r : r.air_yards,
                                SelectSeq(GroupOf(stats[i]), LAMBDA r : r.is_comp)))

\* C23, amended: passing_yards_after_catch is passing_yards minus the sum of
\* yards over the events of the group with stat_id 111 (the air yards of
\* completed passes); the rows flagged is_comp carry no air yards.
C23_MinusCompletedAirYards ==
    pc = "aggregated" =>
        \A i \in 1..Len(stats) :
            stats[i].passing_yards_after_catch =
                stats[i].passing_yards
                - SumSeq(SeqMap(LAMBDA r : r.yards,
                                SelectSeq(GroupOf(stats[i]),
                                          LAMBDA r : r.stat_id = 111)))

\* a passer with a 20 yard completion thrown 2 yards behind the line: 22
\* yards after the catch
C23_Witness ==
    /\ pc = "aggregated"
    /\ \E i \in 1..Len(stats) :
        /\ Len(GroupOf(stats[i])) = 2
        /\ stats[i].passing_yards = 20
        /\ stats[i].passing_yards_after_catch = 22

\* 'def if own team equals off else off' on one enriched event
OpponentBy(r) == IF Str(r.team) = r.off THEN r.def ELSE r.off

\* C24: at week level every event of a group yields the same opponent, the
\* opponent_team of the row; it is a team (not null) and not the team of the
\* row.
C24_OpponentIndependentOfRow ==
    (pc = "aggregated" /\ summary_level = "week") =>
        \A i \in 1..Len(stats) :
            LET g == GroupOf(stats[i])
            IN  /\ \A j \in 1..Len(g) : OpponentBy(g[j]) = stats[i].opponent_team
                /\ ~isna(stats[i].opponent_team)
                /\ stats[i].opponent_team # Str(stats[i].team)

-----------------------------------------------------------------------------
(* The enricher on a play table in which the plays of one game carry two   *)
(* season_type values (specification SpecMixed).                            *)

MixedPlays ==
    {RawPlay(Num(1), Str("2015_01_A_B"), Num(2015), Str("REG"), Str("A"), Str("B"),
             Num(1), Str("pass"), Num(0)),
     RawPlay(Num(2), Str("2015_01_A_B"), Num(2015), Str("POST"), Str("A"), Str("B"),
             Num(2), Str("pass"), Num(0)),
     RawPlay(Num(1), Str("2005_01_A_B"), Num(2005), Str("REG"), Str("A"), Str("B"),
             Num(1), Str("pass"), Num(0))}

InitMixed ==
    /\ seasons = <<2005, 2015>>
    /\ summary_level = "none"
    /\ stat_type = "none"
    /\ season_type = "ALL"
    /\ store_pbp \in {Frame(RawColumns, rows) :
                        rows \in SeqsUpTo(MixedPlays, MaxPlays)}
    /\ store_playstats \in SeqsUpTo(StatsEvents, MaxEvents)
    /\ pc = "raw"
    /\ grp_vctr = <<>>
    /\ pbp = EmptyDataFrame
    /\ playstats = <<>>
    /\ stats = <<>>
    /\ result = EmptyDataFrame
    /\ raised = "none"
    /\ stdout = <<>>
    /\ calls = <<>>
    /\ extractor_stats = <<>>
    /\ cache = NoCache
    /\ db = NoDatabase

SpecMixed == InitMixed /\ [][NextStats]_vars

\* (game_id, play_id, player_id, stat_id) of an enriched event
EnrichedKey(r) == <<r.game_id, r.play_id, r.player_id, r.stat_id>>

\* C25: the enriched events have pairwise different (game_id, play_id,
\* player_id, stat_id), and every de-duplicated raw event of a game of the
\* play table has exactly one enriched row.
C25_OneRowPerEvent ==
    Enriched =>
        LET base == base_playstats(pbp, store_playstats, seasons)
        IN  /\ \A i, j \in 1..Len(playstats) :
                   i # j => EnrichedKey(playstats[i]) # EnrichedKey(playstats[j])
            /\ \A b \in 1..Len(base) :
                   Cardinality({i \in 1..Len(playstats) :
                       EnrichedKey(playstats[i]) =
                           <<base[b].game_id, base[b].play_id,
                             base[b].gsis_player_id.s, base[b].stat_id>>}) = 1

-----------------------------------------------------------------------------
(* seed.py: seed_database as a sequence of steps on the database           *)
(* (specification SpecSeed).  db.rows is the number of rows fetched for    *)
(* each table; db.pending are the tables with rows written in the open     *)
(* transaction of the psycopg2 connection conn; db.visible are the tables  *)
(* with rows of this run that are committed.  Every step inside the try    *)
(* block can raise.                                                        *)

\* the tables written through conn.cursor(), in the order of lines 105-328
CursorTables == <<"players", "games", "snap_counts", "plays", "playstats">>

SeedTables == {"teams"} \cup Range(CursorTables)

\* teams and players are never empty; the season's tables can be
FetchedRows ==
    {r \in [SeedTables -> 0..1] : r["teams"] = 1 /\ r["players"] = 1}

InitSeed ==
    /\ seasons = <<2024>>
    /\ summary_level = "week"
    /\ stat_type = "none"
    /\ season_type = "ALL"
    /\ store_pbp = EmptyDataFrame
    /\ store_playstats = <<>>
    /\ pc = "seed"
    /\ grp_vctr = <<>>
    /\ pbp = EmptyDataFrame
    /\ playstats = <<>>
    /\ stats = <<>>
    /\ result = EmptyDataFrame
    /\ raised = "none"
    /\ stdout = <<>>
    /\ calls = <<>>
    /\ extractor_stats = <<>>
    /\ cache = NoCache
    /\ db \in {[step |-> "connected", rows |-> r, next |-> 1,
                pending |-> {}, visible |-> {}] : r \in FetchedRows}

SeedUnchanged ==
    UNCHANGED <<seasons, summary_level, stat_type, season_type, store_pbp,
                store_playstats, pc, grp_vctr, pbp, playstats, stats, result,
                stdout, calls, extractor_stats, cache>>

\* lines 83-94: the data is fetched, cleaned and enriched
SeedFetch ==
    /\ db.step = "connected"
    /\ db' = [db EXCEPT !.step = "fetched"]
    /\ raised' = raised
    /\ SeedUnchanged

\* line 101: teams.to_sql("teams", engine, if_exists="append", index=False)
\* writes through a connection of the SQLAlchemy engine, which commits when
\* to_sql returns; conn takes no part in it
SeedInsertTeams ==
    /\ db.step = "fetched"
    /\ db' = [db EXCEPT !.step = "inserting",
                        !.visible = IF db.rows["teams"] > 0
                                    THEN @ \cup {"teams"} ELSE @]
    /\ raised' = raised
    /\ SeedUnchanged

\* lines 105-328: execute_batch(cursor, ...) for the next table, inside the
\* transaction of conn
SeedInsertBatch ==
    /\ db.step = "inserting"
    /\ db.next <= Len(CursorTables)
    /\ db' = [db EXCEPT !.next = @ + 1,
                        !.pending = IF db.rows[CursorTables[db.next]] > 0
                                    THEN @ \cup {CursorTables[db.next]} ELSE @]
    /\ raised' = raised
    /\ SeedUnchanged

\* lines 332-335: the materialized view is refreshed and conn.commit() makes
\* the pending rows visible
SeedCommit ==
    /\ db.step = "inserting"
    /\ db.next > Len(CursorTables)
    /\ db' = [db EXCEPT !.step = "committed",
                        !.visible = @ \cup db.pending,
                        !.pending = {}]
    /\ raised' = raised
    /\ SeedUnchanged

\* lines 338-343: a step of the try block raises; conn.rollback() discards
\* the pending rows of conn, the exception is re-raised.  The print of line
\* 336 is inside the try block too: when it raises after conn.commit() there
\* is nothing pending and the committed rows stay.
SeedFail ==
    /\ db.step \in {"connected", "fetched", "inserting", "committed"}
    /\ db' = [db EXCEPT !.step = "raised", !.pending = {}]
    /\ raised' = "Exception"
    /\ SeedUnchanged

NextSeed ==
    \/ SeedFetch
    \/ SeedInsertTeams
    \/ SeedInsertBatch
    \/ SeedCommit
    \/ SeedFail

SpecSeed == InitSeed /\ [][NextSeed]_vars

\* C26: when a step of seed_database fails no table keeps rows of the run,
\* and rows of the run are visible only after the final commit.
C26_AllOrNothing ==
    /\ db.step = "raised" => db.visible = {}
    /\ db.visible # {} => db.step = "committed"

-----------------------------------------------------------------------------
(* utils_data.py: one call of _cache_playstats or of _cache_pbp            *)
(* (specification SpecCache).  cache holds the arguments, the file before  *)
(* the call (exists, cached: the game_ids of its rows), the schedule       *)
(* (completed: the games with a result), the outcome of the loader if it   *)
(* is run (rc: the return code of the R script; for _cache_pbp, whether    *)
(* import_pbp_data raises), and what the call did.                         *)

MostRecentSeason == 2024

CacheSeasons == {2023, 2024}

\* the games of the season's schedule
ScheduleGames == {1, 2}

CacheCalls ==
    {[fn |-> "none", step |-> "call", season |-> s, update_season |-> u,
      exists |-> e, cached |-> c, completed |-> d, rc |-> rc,
      loaded |-> FALSE, file |-> c, file_exists |-> e, error |-> "none"] :
        s \in CacheSeasons, u \in BOOLEAN, e \in BOOLEAN,
        c \in SUBSET ScheduleGames, d \in SUBSET ScheduleGames, rc \in 0..1}

InitCache ==
    /\ seasons = <<2024>>
    /\ summary_level = "none"
    /\ stat_type = "none"
    /\ season_type = "ALL"
    /\ store_pbp = EmptyDataFrame
    /\ store_playstats = <<>>
    /\ pc = "cache"
    /\ grp_vctr = <<>>
    /\ pbp = EmptyDataFrame
    /\ playstats = <<>>
    /\ stats = <<>>
    /\ result = EmptyDataFrame
    /\ raised = "none"
    /\ stdout = <<>>
    /\ calls = <<>>
    /\ extractor_stats = <<>>
    /\ cache \in {c \in CacheCalls : ~c.exists => c.cached = {}}
    /\ db = NoDatabase

CacheUnchanged ==
    UNCHANGED <<seasons, summary_level, stat_type, season_type, store_pbp,
                store_playstats, pc, grp_vctr, pbp, playstats, stats, result,
                raised, stdout, calls, extractor_stats, db>>

\* lines 164, 217: playstats[~playstats.game_id.isin(completed_games)], the
\* games of the rows of the cached file that are not completed games
missing_games(cached, completed) == cached \ completed

\* the loader ran: it wrote the file with the completed games when it
\* succeeded and left the file as it was when it failed
AfterLoad(c) ==
    IF c.rc = 0
    THEN [c EXCEPT !.loaded = TRUE, !.file = c.completed, !.file_exists = TRUE]
    ELSE [c EXCEPT !.loaded = TRUE]

Returned(c) == [c EXCEPT !.step = "returned"]

Raised(c, e) == [c EXCEPT !.step = "raised", !.error = e]

\* _cache_playstats(season, file_path, update_season), lines 120-175;
\* load_playstats_cli (lines 228-288) returns the return code of Rscript
cache_playstats(c) ==
    IF ~c.exists
    THEN Returned(AfterLoad(c))
    ELSE IF c.season = MostRecentSeason /\ c.update_season
         THEN (IF missing_games(c.cached, c.completed) = {}
               THEN Returned(c)
               ELSE IF c.rc # 0
                    THEN Raised(AfterLoad(c), "RuntimeError")
                    ELSE Returned(AfterLoad(c)))
         ELSE Returned(c)

\* _cache_pbp(season, file_path, update_season), lines 178-225; an exception
\* of nfl.import_pbp_data leaves the function
cache_pbp(c) ==
    IF ~c.exists
    THEN (IF c.rc # 0 THEN Raised(AfterLoad(c), "Exception")
          ELSE Returned(AfterLoad(c)))
    ELSE IF c.season = MostRecentSeason /\ c.update_season
         THEN (IF missing_games(c.cached, c.completed) = {}
               THEN Returned(c)
               ELSE IF c.rc # 0
                    THEN Raised(AfterLoad(c), "Exception")
                    ELSE Returned(AfterLoad(c)))
         ELSE Returned(c)

CachePlaystats ==
    /\ cache.step = "call"
    /\ cache' = [cache_playstats(cache) EXCEPT !.fn = "playstats"]
    /\ CacheUnchanged

CachePbp ==
    /\ cache.step = "call"
    /\ cache' = [cache_pbp(cache) EXCEPT !.fn = "pbp"]
    /\ CacheUnchanged

NextCache ==
    \/ CachePlaystats
    \/ CachePbp

SpecCache == InitCache /\ [][NextCache]_vars

\* C27: with update_season and the most recent season, a cached file is
\* refreshed (the loader is run) exactly when a completed game of the
\* schedule is not in the cached file.
C27_RefreshWhenGameMissing ==
    (/\ cache.step # "call"
     /\ cache.exists
     /\ cache.update_season
     /\ cache.season = MostRecentSeason) =>
        (cache.loaded <=> (cache.completed \ cache.cached # {}))

\* C28: _cache_playstats raises RuntimeError whenever the R script it ran
\* failed, and then returns no path.
C28_RaisesWhenScriptFails ==
    (/\ cache.fn = "playstats"
     /\ cache.loaded
     /\ cache.rc # 0) =>
        (cache.step = "raised" /\ cache.error = "RuntimeError")

-----------------------------------------------------------------------------
(* Claims about the rows of the aggregated table.                          *)

\* the grouping keys of the enriched events
EventKeys == {GroupKeyOf(grp_vctr, playstats[j]) : j \in 1..Len(playstats)}

\* the rows of the extractor tables whose key no enriched event has
ExtractorOnlyRows ==
    {<<t, i>> \in (1..5) \X (1..1) :
        /\ i <= Len(extractor_stats[t].rows)
        /\ GroupKeyOf(grp_vctr, extractor_stats[t].rows[i]) \notin EventKeys}

\* C29: the aggregated table has exactly one row for each grouping key of
\* the enriched events and no other row: the merges neither duplicate nor
\* drop a row, and a key that only an extractor table holds adds none.
C29_OneRowPerKey ==
    pc = "aggregated" =>
        /\ \A i, j \in 1..Len(stats) :
               i # j => GroupKeyOf(grp_vctr, stats[i]) # GroupKeyOf(grp_vctr, stats[j])
        /\ {GroupKeyOf(grp_vctr, stats[i]) : i \in 1..Len(stats)} = EventKeys

\* two events in one group give one row, merged with extractor tables of
\* which one holds a key that no event has
C29_Witness ==
    /\ pc = "aggregated"
    /\ Len(playstats) = 2
    /\ Len(stats) = 1
    /\ ExtractorOnlyRows # {}

\* C30: at player level a target_share that is not null lies between 0 and
\* 1: the targets of the row do not exceed the team-target denominator.
C30_TargetShareAtMostOne ==
    (pc = "aggregated" /\ stat_type = "player") =>
        \A i \in 1..Len(stats) :
            stats[i].target_share # NaN =>
                /\ stats[i].target_share[2] > 0
                /\ 0 <= stats[i].target_share[1]
                /\ stats[i].target_share[1] <= stats[i].target_share[2]

====
